---------------------------- MODULE Spec2Model ----------------------------
(***************************************************************************)
(* Position-tracking and trailing-stop engine of manager_closer.py         *)
(* (TrailingStopManager).                                                  *)
(*                                                                         *)
(* Prices are exact decimals written as integers: one unit is 10^-6, so    *)
(* the 5 fractional digits kept by round(x, 5) are the multiples of Grid.  *)
(* Python's binary floating point is replaced by exact arithmetic; ties of *)
(* round() go to the even neighbour, as Python's round does.               *)
(***************************************************************************)
EXTENDS Integers, Sequences, FiniteSets, TLC

VARIABLES
    \* ---- engine cycle (manage_stop_losses) ----
    positions_file,     \* content of positions_data.json (the final path)
    stored_positions,   \* in-memory stored_positions of the running cycle
    current_positions,  \* live positions returned by get_open_positions()
    product_mapping,    \* self.product_mapping of the manager instance
    pending,            \* live symbols the for-loop has still to visit
    pc,                 \* "idle" between runs, "loop" inside the for-loop
    now,                \* number of the run; stands for datetime.now()
    orders,             \* place_order calls of the running cycle, in order
    loaded,             \* stored_positions as loaded at the start of the cycle
    seen,               \* per visited symbol: product id and price obtained
    save_failed,        \* _save_positions_data raised in the last cycle
    result,             \* how manage_stop_losses ended for its caller
    save_calls,         \* calls of _save_positions_data made by the cycle
    aborted_by,         \* what ended the cycle before its save, or "none"
    stop_loss_percentage, \* self.stop_loss_percentage of the manager
    \* ---- position store (_save_positions_data) ----
    fs,                 \* final path, .backup/ files, .temp/ files
    data,               \* the in-memory snapshot handed to the save
    spc,                \* position inside _save_positions_data
    retry_count,        \* retry_count of the while loop
    attempts,           \* number of passes started through the try block
    sleeps,             \* number of time.sleep(1) calls made
    prior,              \* content of the final path when the save started
    saves,              \* number of calls of _save_positions_data so far
    faults_used,        \* number of I/O faults and interruptions injected
    final_verified,     \* the final path was re-read and found equal to data
    verified,           \* contents the final path had when it was verified
    \* ---- price oracle (_get_current_price) ----
    lk,                 \* position of the calling thread inside the lookup
    lk_symbol,          \* symbol of the running (or last) lookup
    lookups,            \* number of calls of _get_current_price so far
    self_current_price, \* self.current_price, shared with the listener threads
    written_by,         \* lookup whose listener wrote self.current_price last
    polls,              \* time.sleep(0.1) calls made by the wait loop
    listeners,          \* the ws_thread of every lookup that started one
    primary,            \* outcome of the REST query of the lookup
    price_result,       \* value returned by the last lookup
    result_from,        \* lookup whose listener delivered price_result
    \* ---- stop-loss calculator, called on its own ----
    calc_in,            \* current_price, current_stop_loss, entry_price, size
    calc_out,           \* what the two functions returned for calc_in
    \* ---- order execution (DeltaExchange.place_order) ----
    order_args,         \* product_id, size, order_type, side of the call
    order_requests,     \* POST requests the call handed to the session
    order_outcome,      \* how the call ended for its caller
    \* ---- the exchange account ----
    exchange_open,      \* positions that are open on the exchange
    \* ---- trade execution (DeltaTradingSystem.execute_trades) ----
    trade_opportunities, \* the opportunities handed to execute_trades
    trade_orders,       \* place_order calls made by execute_trades
    trade_run           \* execute_trades has returned; what it was told exists

engine_vars == <<positions_file, stored_positions, current_positions,
                 product_mapping, pending, pc, now, orders, loaded, seen,
                 save_failed, result, save_calls, aborted_by,
                 stop_loss_percentage>>
store_vars == <<fs, data, spc, retry_count, attempts, sleeps, prior, saves,
                faults_used, final_verified, verified>>
oracle_vars == <<lk, lk_symbol, lookups, self_current_price, written_by,
                 polls, listeners, primary, price_result, result_from>>
calc_vars == <<calc_in, calc_out>>
order_vars == <<order_args, order_requests, order_outcome>>
exchange_vars == <<exchange_open>>
trade_vars == <<trade_opportunities, trade_orders, trade_run>>
vars == <<engine_vars, store_vars, oracle_vars, calc_vars, order_vars,
          exchange_vars, trade_vars>>

\* what the steps of one component leave alone
outside_engine == <<store_vars, oracle_vars, calc_vars, order_vars,
                    exchange_vars, trade_vars>>
outside_store == <<engine_vars, oracle_vars, calc_vars, order_vars,
                   exchange_vars, trade_vars>>
outside_oracle == <<engine_vars, store_vars, calc_vars, order_vars,
                    exchange_vars, trade_vars>>
outside_calc == <<engine_vars, store_vars, oracle_vars, order_vars,
                  exchange_vars, trade_vars>>
outside_order == <<engine_vars, store_vars, oracle_vars, calc_vars,
                   exchange_vars, trade_vars>>
outside_trade == <<engine_vars, store_vars, oracle_vars, calc_vars,
                   order_vars>>

---------------------------------------------------------------------------
(* Bounds of the model *)

\* number of engine runs explored
MaxCycles == 3
\* number of calls of _save_positions_data explored
MaxSaves == 2
\* the snapshots handed to a save are numbered 1..MaxSnapshot
MaxSnapshot == 2
\* number of I/O faults and interruptions injected into the saves
MaxFaults == 3
\* number of calls of _get_current_price explored
MaxLookups == 2
\* passes of the wait loop before its timeout (timeout / sleep, scaled down)
WaitPolls == 2

---------------------------------------------------------------------------
(* Program constants *)

\* stop_loss_percentage default of TrailingStopManager.__init__
StopLossPercentage == 2
\* units per 10^-5: round(x, 5) keeps multiples of Grid
Grid == 10
\* MAX_RETRIES of _save_positions_data
MAX_RETRIES == 3
\* number of backups kept by the pruning step
KeptBackups == 5

Symbols == {"BTCUSD", "ETHUSD"}
\* iteration order of the products list (and so of current_positions)
SymbolOrder == <<"BTCUSD", "ETHUSD">>
\* product ids of /v2/products
ProductId == [s \in Symbols |-> IF s = "BTCUSD" THEN 27 ELSE 3136]

\* values the exchange reports for a live position: its entry price and its
\* size (never 0); BTCUSD is held long or short, ETHUSD short
EntryPrice == [s \in Symbols |-> IF s = "BTCUSD" THEN 1000 ELSE 1010]
Sizes == [s \in Symbols |-> IF s = "BTCUSD" THEN {-2, 1} ELSE {-2}]
\* values _get_current_price can return; 0 is its failure value
PriceResults == {0, 950, 1000, 1024}

---------------------------------------------------------------------------
(* Stop-loss calculator *)

Abs(x) == IF x < 0 THEN -x ELSE x

\* nearest integer to n/d (d > 0), ties to the even neighbour
RoundHalfEven(n, d) ==
    LET q == n \div d
        r == n % d
    IN  IF 2 * r < d THEN q
        ELSE IF 2 * r > d THEN q + 1
        ELSE IF q % 2 = 0 THEN q ELSE q + 1

\* round(num / den, 5) of a price given as the fraction num/den of units
Round5(num, den) == RoundHalfEven(num, den * Grid) * Grid

\* variant: the percentage taken of the current price
calculate_stop_loss_of_price(current_price, entry_price, size) ==
    IF size > 0
    THEN Round5(current_price * (100 - stop_loss_percentage), 100)
    ELSE Round5(current_price * (100 + stop_loss_percentage), 100)

\* variant: the offset is subtracted for both directions
calculate_stop_loss_below(current_price, entry_price, size) ==
    Round5(100 * current_price - entry_price * stop_loss_percentage, 100)

\* _calculate_stop_loss: stop_diff = entry_price * (pct / 100)
calculate_stop_loss(current_price, entry_price, size) ==
    IF size > 0
    THEN Round5(100 * current_price - entry_price * stop_loss_percentage, 100)
    ELSE Round5(100 * current_price + entry_price * stop_loss_percentage, 100)

\* variant: no candidate is ever accepted
should_update_stop_loss_never(current_price, current_stop_loss, entry_price, size) ==
    FALSE

\* _should_update_stop_loss: compares the unrounded candidate
should_update_stop_loss(current_price, current_stop_loss, entry_price, size) ==
    IF size > 0
    THEN 100 * current_price - entry_price * stop_loss_percentage
            > 100 * current_stop_loss
    ELSE 100 * current_price + entry_price * stop_loss_percentage
            < 100 * current_stop_loss


---------------------------------------------------------------------------
(* Position store: files and the steps of _save_positions_data *)

\* contents a path can have
Absent == [kind |-> "absent"]
\* not well-formed JSON (external damage)
Corrupt == [kind |-> "corrupt"]
\* a file opened for writing whose json.dump did not complete
Partial == [kind |-> "partial"]
\* a well-formed snapshot document holding d
Doc(d) == [kind |-> "json", doc |-> d]
\* well-formed JSON whose top level is not an object (a list, a number, null)
NotDict == [kind |-> "json_other"]
\* json.load succeeds on the content
Decodable(file) == file.kind \in {"json", "json_other"}

\* the snapshot {"positions": {}}
EmptySnapshot == [s \in {} |-> 0]

Last(q) == q[Len(q)]
Front(q) == SubSeq(q, 1, Len(q) - 1)
LastN(q, n) == IF Len(q) > n THEN SubSeq(q, Len(q) - n + 1, Len(q)) ELSE q

\* the single I/O fault injected into one pass through the try block
AttemptFaults == {"none", "backup_open", "backup_write", "temp_write",
                  "temp_corrupt", "temp_read", "replace", "final_read"}

\* variant: no backup is made
backup_step_skipped(f, flt) == [fs |-> f, ok |-> flt # "backup_open"]

\* .backup/ copy of the final path
backup_step(f, flt) ==
    IF flt = "backup_open" THEN [fs |-> f, ok |-> FALSE]
    ELSE IF f.final = Absent THEN [fs |-> f, ok |-> TRUE]
    ELSE IF ~Decodable(f.final) \/ flt = "backup_write"
    THEN [fs |-> [f EXCEPT !.backups = Append(@, Partial)], ok |-> FALSE]
    ELSE [fs |-> [f EXCEPT !.backups = Append(@, f.final)], ok |-> TRUE]

\* json.dump(data) into a fresh file of .temp/
write_temp_step(f, d, flt) ==
    IF flt = "temp_write"
    THEN [fs |-> [f EXCEPT !.temps = Append(@, Partial)], ok |-> FALSE]
    ELSE IF flt = "temp_corrupt"
    THEN [fs |-> [f EXCEPT !.temps = Append(@, Corrupt)], ok |-> TRUE]
    ELSE [fs |-> [f EXCEPT !.temps = Append(@, Doc(d))], ok |-> TRUE]

\* variant: the temp file is read back but not compared
verify_temp_skipped(f, d, flt) == [fs |-> f, ok |-> flt # "temp_read"]

\* re-read of the temp file and comparison with data
verify_temp_step(f, d, flt) ==
    [fs |-> f,
     ok |-> flt # "temp_read" /\ f.temps # <<>> /\ Last(f.temps) = Doc(d)]

\* os.replace(temp_file, self.positions_file)
replace_step(f, flt) ==
    IF flt = "replace" THEN [fs |-> f, ok |-> FALSE]
    ELSE [fs |-> [f EXCEPT !.final = Last(f.temps), !.temps = Front(@)],
          ok |-> TRUE]

\* re-read of the final path and comparison with data
verify_final_step(f, d, flt) ==
    [fs |-> f, ok |-> flt # "final_read" /\ f.final = Doc(d)]

\* variant: the oldest backups are the ones kept
cleanup_step_oldest(f, flt) ==
    [f EXCEPT !.temps = <<>>,
              !.backups = IF Len(@) > KeptBackups
                          THEN SubSeq(@, 1, KeptBackups) ELSE @]

\* removal of .temp/ and pruning of .backup/ to the newest files; each of
\* the two is in a try block of its own whose exception is only logged
cleanup_step(f, flt) ==
    [f EXCEPT !.temps = IF flt = "cleanup_temp" THEN @ ELSE <<>>,
              !.backups = IF flt = "cleanup_backups" THEN @
                          ELSE LastN(@, KeptBackups)]

\* the restore of the except block: only positions_data.json.bak is looked at
restore_step(f, rc) ==
    IF rc = MAX_RETRIES /\ f.bak # Absent
    THEN [f EXCEPT !.final = f.bak, !.bak = Absent]
    ELSE f

\* the faults injected into the save of an engine run: every other fault of
\* AttemptFaults leaves the final path as one of these does
CycleFaults == {"none", "temp_write", "final_read"}

\* one pass through the try block under one injected fault
save_attempt(f, d, flt) ==
    LET b == backup_step(f, flt) IN
    IF ~b.ok THEN b ELSE
    LET w == write_temp_step(b.fs, d, flt) IN
    IF ~w.ok THEN w ELSE
    LET v == verify_temp_step(w.fs, d, flt) IN
    IF ~v.ok THEN v ELSE
    LET r == replace_step(v.fs, flt) IN
    IF ~r.ok THEN r ELSE
    LET c == verify_final_step(r.fs, d, flt) IN
    IF ~c.ok THEN c ELSE
    [fs |-> cleanup_step(c.fs, flt), ok |-> TRUE]

\* variant: one pass too many
retry_again_once_more(rc) == rc <= MAX_RETRIES

\* "if retry_count < MAX_RETRIES": sleep and go round again, else raise
retry_again(rc) == rc < MAX_RETRIES

RECURSIVE save_loop(_, _, _, _)
\* the while loop, from retry_count = rc on
save_loop(f, d, faults, rc) ==
    LET a == save_attempt(f, d, faults[rc + 1]) IN
    IF a.ok THEN [fs |-> a.fs, raised |-> FALSE]
    ELSE LET g == restore_step(a.fs, rc + 1) IN
         IF retry_again(rc + 1)
         THEN save_loop(g, d, faults, rc + 1)
         ELSE [fs |-> g, raised |-> TRUE]

\* _save_positions_data(data) as one call
save_positions_data(f, d, faults) == save_loop(f, d, faults, 0)

\* variant: a load that always starts afresh
load_positions_data_fresh(file) == Doc(EmptySnapshot)

\* _load_positions_data: the decoded document; an absent or undecodable file
\* gives {"positions": {}}
load_positions_data(file) ==
    IF Decodable(file) THEN file ELSE Doc(EmptySnapshot)

\* positions_data.get("positions", {}): an exception when the decoded
\* document is not an object
get_positions(positions_data) ==
    IF positions_data.kind = "json"
    THEN [ok |-> TRUE, positions |-> positions_data.doc]
    ELSE [ok |-> FALSE, positions |-> EmptySnapshot]

---------------------------------------------------------------------------
(* Order execution (place_order), as far as the engine depends on it *)

\* _validate_order_params
validate_order_params(product_id, size, order_type, side) ==
    /\ product_id > 0
    /\ size > 0
    /\ order_type \in {"market_order", "limit_order"}
    /\ side \in {"buy", "sell"}

\* place_order: the "success" of the response; exchange_ok is the exchange's
\* answer to a request that was sent
place_order(product_id, size, order_type, side, exchange_ok) ==
    validate_order_params(product_id, size, order_type, side) /\ exchange_ok

---------------------------------------------------------------------------
(* Reconciliation loop (manage_stop_losses) *)

\* stored_positions with the entry of symbol deleted / set
Without(st, symbol) == [s \in DOMAIN st \ {symbol} |-> st[s]]
With(st, symbol, e) ==
    [s \in DOMAIN st \cup {symbol} |-> IF s = symbol THEN e ELSE st[s]]

\* what the exchange can report as open positions: non-zero sizes only
LivePositions ==
    UNION {{[s \in S |-> [entry_price |-> EntryPrice[s], size |-> z[s]]] :
                z \in {f \in [S -> UNION {Sizes[x] : x \in Symbols}] :
                            \A s \in S : f[s] \in Sizes[s]}} :
           S \in SUBSET Symbols}

\* results of get_product_mapping: {} on failure, else symbol -> id; a symbol
\* can be missing from the products list
Mappings == {[s \in S |-> ProductId[s]] : S \in {{}, {"BTCUSD"}, Symbols}}

\* the symbols of live, in the order of the products list
RECURSIVE InOrder(_, _)
InOrder(q, S) ==
    IF q = <<>> THEN <<>>
    ELSE IF Head(q) \in S THEN <<Head(q)>> \o InOrder(Tail(q), S)
    ELSE InOrder(Tail(q), S)

\* variant: a breach test that misses current_price = stop_loss
stop_loss_hit_strict(current_price, stop_loss, size) ==
    IF size > 0 THEN current_price < stop_loss ELSE current_price > stop_loss

\* breach test of the loop body, on the live size
stop_loss_hit(current_price, stop_loss, size) ==
    IF size > 0 THEN current_price <= stop_loss ELSE current_price >= stop_loss

\* variant: the first stop anchored to the current price
new_position_data_from_price(entry_price, current_price, size, t) ==
    [entry_price |-> entry_price,
     current_price |-> current_price,
     stop_loss |-> calculate_stop_loss(current_price, entry_price, size),
     size |-> size,
     stop_loss_updates |-> 0,
     last_update |-> t]

\* the dictionary stored for a position seen for the first time
new_position_data(entry_price, current_price, size, t) ==
    [entry_price |-> entry_price,
     current_price |-> current_price,
     stop_loss |-> calculate_stop_loss(entry_price, entry_price, size),
     size |-> size,
     stop_loss_updates |-> 0,
     last_update |-> t]

\* variant: the trailing update also takes over the live size
tighten_to_live(stored_pos, current_price, size, t) ==
    [stored_pos EXCEPT
        !.stop_loss = calculate_stop_loss(current_price,
                                          stored_pos.entry_price, size),
        !.size = size,
        !.stop_loss_updates = @ + 1,
        !.last_update = t]

\* the trailing update of a tracked position (both branches are the same code
\* up to the messages)
tighten(stored_pos, current_price, size, t) ==
    [stored_pos EXCEPT
        !.stop_loss = calculate_stop_loss(current_price,
                                          stored_pos.entry_price, size),
        !.stop_loss_updates = @ + 1,
        !.last_update = t]

\* variant: the entry is deleted whatever the response
after_close_forget(st, symbol, stored_pos, success) == Without(st, symbol)

\* after a close order: "del stored_positions[symbol]" only on success
after_close(st, symbol, stored_pos, success) ==
    IF success THEN Without(st, symbol) ELSE With(st, symbol, stored_pos)

\* the else branch of the loop body: a live position that has a stored entry
refresh_position(st, symbol, size, product_id, current_price, exchange_ok, t) ==
    LET stored_pos == [st[symbol] EXCEPT !.current_price = current_price]
        side == IF size > 0 THEN "sell" ELSE "buy"
        success == place_order(product_id, Abs(size), "market_order", side,
                               exchange_ok)
    IN  IF stop_loss_hit(current_price, stored_pos.stop_loss, size)
        THEN [stored |-> after_close(st, symbol, stored_pos, success),
              orders |-> << [product_id |-> product_id, size |-> Abs(size),
                             order_type |-> "market_order", side |-> side,
                             success |-> success] >>]
        ELSE IF should_update_stop_loss(current_price, stored_pos.stop_loss,
                                        stored_pos.entry_price, size)
        THEN [stored |-> With(st, symbol,
                              tighten(stored_pos, current_price, size, t)),
              orders |-> <<>>]
        ELSE [stored |-> With(st, symbol, stored_pos), orders |-> <<>>]

\* variant: the failure value taken as a price
price_invalid_never(current_price) == FALSE

\* "if current_price == 0": the failure value of _get_current_price
price_invalid(current_price) == current_price = 0

\* variant: a position seen for the first time is inserted and then tested
\* like a tracked one
process_position_tested(st, symbol, position, mapping, current_price, exchange_ok, t) ==
    LET product_id == IF symbol \in DOMAIN mapping THEN mapping[symbol] ELSE 0
        known == IF symbol \in DOMAIN st THEN st
                 ELSE With(st, symbol,
                           new_position_data(position.entry_price,
                               current_price, position.size, t))
    IN  IF product_id = 0
        THEN [stored |-> st, orders |-> <<>>,
              seen |-> [product_id |-> 0, looked_up |-> FALSE, price |-> 0]]
        ELSE IF price_invalid(current_price)
        THEN [stored |-> st, orders |-> <<>>,
              seen |-> [product_id |-> product_id, looked_up |-> TRUE,
                        price |-> 0]]
        ELSE LET r == refresh_position(known, symbol, position.size,
                                product_id, current_price, exchange_ok, t)
             IN  [stored |-> r.stored, orders |-> r.orders,
                  seen |-> [product_id |-> product_id, looked_up |-> TRUE,
                            price |-> current_price]]

\* one iteration of the for-loop over current_positions
process_position(st, symbol, position, mapping, current_price, exchange_ok, t) ==
    LET product_id == IF symbol \in DOMAIN mapping THEN mapping[symbol] ELSE 0
    IN  IF product_id = 0
        THEN [stored |-> st, orders |-> <<>>,
              seen |-> [product_id |-> 0, looked_up |-> FALSE, price |-> 0]]
        ELSE IF price_invalid(current_price)
        THEN [stored |-> st, orders |-> <<>>,
              seen |-> [product_id |-> product_id, looked_up |-> TRUE,
                        price |-> 0]]
        ELSE LET r == IF symbol \notin DOMAIN st
                      THEN [stored |-> With(st, symbol,
                                new_position_data(position.entry_price,
                                    current_price, position.size, t)),
                            orders |-> <<>>]
                      ELSE refresh_position(st, symbol, position.size,
                                product_id, current_price, exchange_ok, t)
             IN  [stored |-> r.stored, orders |-> r.orders,
                  seen |-> [product_id |-> product_id, looked_up |-> TRUE,
                            price |-> current_price]]

\* variant: nothing is removed
remove_closed_none(st, live) == st

\* "Remove closed positions": stored symbols that are not live
remove_closed(st, live) == [s \in DOMAIN st \cap DOMAIN live |-> st[s]]

\* the except clause around the body of manage_stop_losses: an exception of
\* the body is logged and printed, and the method returns
manage_outcome(raised) == "returned"

\* what a run can find at the final path: the file as the last run left it,
\* or a file damaged or replaced from outside between two runs
FilesFound(file) == {file, Corrupt, NotDict}

\* Start of a run: product mapping, load, live positions.  main() builds a new
\* TrailingStopManager for every run, so product_mapping starts empty.
StartCycle ==
    /\ pc = "idle"
    /\ now < MaxCycles
    /\ \E mapping \in Mappings, live \in LivePositions,
          found \in FilesFound(positions_file) :
        LET got == get_positions(load_positions_data(found))
        IN  /\ now' = now + 1
            /\ positions_file' = found
            /\ product_mapping' = mapping
            /\ orders' = <<>>
            /\ seen' = EmptySnapshot
            /\ save_failed' = FALSE
            /\ save_calls' = 0
            /\ IF mapping = EmptySnapshot \/ ~got.ok
               THEN /\ pc' = "idle"
                    /\ result' = IF mapping = EmptySnapshot THEN "returned"
                                  ELSE manage_outcome(TRUE)
                    /\ aborted_by' = IF mapping = EmptySnapshot THEN "mapping"
                                      ELSE "load"
                    /\ loaded' = EmptySnapshot
                    /\ current_positions' = EmptySnapshot
                    /\ pending' = <<>>
                    /\ UNCHANGED stored_positions
               ELSE /\ pc' = "loop"
                    /\ result' = "running"
                    /\ aborted_by' = "none"
                    /\ stored_positions' = got.positions
                    /\ loaded' = got.positions
                    /\ current_positions' = live
                    /\ pending' = InOrder(SymbolOrder, DOMAIN live)
    /\ UNCHANGED <<stop_loss_percentage, outside_engine>>

\* One iteration of the for-loop.
ProcessPosition ==
    /\ pc = "loop"
    /\ pending # <<>>
    /\ \E current_price \in PriceResults, exchange_ok \in BOOLEAN :
        LET symbol == Head(pending)
            r == process_position(stored_positions, symbol,
                                  current_positions[symbol], product_mapping,
                                  current_price, exchange_ok, now)
        IN  /\ stored_positions' = r.stored
            /\ orders' = orders \o r.orders
            /\ seen' = With(seen, symbol, r.seen)
    /\ pending' = Tail(pending)
    /\ UNCHANGED <<positions_file, current_positions, product_mapping, pc, now,
                   loaded, save_failed, result, save_calls, aborted_by,
                   stop_loss_percentage, outside_engine>>

\* After the loop: removal of closed positions, the save, the summary.
FinishCycle ==
    /\ pc = "loop"
    /\ pending = <<>>
    /\ \E faults \in [1..MAX_RETRIES -> CycleFaults] :
        LET kept == remove_closed(stored_positions, current_positions)
            s == save_positions_data(
                    [final |-> positions_file, backups |-> <<>>,
                     temps |-> <<>>, bak |-> Absent], kept, faults)
        IN  /\ stored_positions' = kept
            /\ positions_file' = s.fs.final
            /\ save_failed' = s.raised
            /\ result' = manage_outcome(s.raised)
    /\ save_calls' = save_calls + 1
    /\ pc' = "idle"
    /\ UNCHANGED <<current_positions, product_mapping, pending, now, orders,
                   loaded, seen, aborted_by, stop_loss_percentage,
                   outside_engine>>

EngineInit ==
    /\ positions_file = Absent
    /\ stored_positions = EmptySnapshot
    /\ current_positions = EmptySnapshot
    /\ product_mapping = EmptySnapshot
    /\ pending = <<>>
    /\ pc = "idle"
    /\ now = 0
    /\ orders = <<>>
    /\ loaded = EmptySnapshot
    /\ seen = EmptySnapshot
    /\ save_failed = FALSE
    /\ result = "none"
    /\ save_calls = 0
    /\ aborted_by = "none"
    /\ stop_loss_percentage = StopLossPercentage

StoreIdle ==
    /\ fs = [final |-> Absent, backups |-> <<>>, temps |-> <<>>, bak |-> Absent]
    /\ data = EmptySnapshot
    /\ spc = "idle"
    /\ retry_count = 0
    /\ attempts = 0
    /\ sleeps = 0
    /\ prior = Absent
    /\ saves = 0
    /\ faults_used = 0
    /\ final_verified = FALSE
    /\ verified = {}

\* no candles request made yet
NoResponse == [raised |-> FALSE, status |-> 0, success |-> FALSE, result |-> <<>>]

\* no call of the calculator or of place_order on its own
CalcIdle ==
    /\ calc_in = [current_price |-> 0, current_stop_loss |-> 0,
                  entry_price |-> 0, size |-> 1]
    /\ calc_out = [done |-> FALSE, candidate |-> 0, update |-> FALSE]

OrderIdle ==
    /\ order_args = <<>>
    /\ order_requests = 0
    /\ order_outcome = [done |-> FALSE, error |-> "", raised |-> "",
                        success |-> FALSE]

\* no position fetched and execute_trades not called
AccountIdle ==
    /\ exchange_open = EmptySnapshot
    /\ trade_opportunities = EmptySnapshot
    /\ trade_orders = <<>>
    /\ trade_run = [done |-> FALSE, existing |-> {}]

OracleIdle ==
    /\ lk = "idle"
    /\ lk_symbol = "BTCUSD"
    /\ lookups = 0
    /\ self_current_price = 0
    /\ written_by = 0
    /\ polls = 0
    /\ listeners = <<>>
    /\ primary = NoResponse
    /\ price_result = 0
    /\ result_from = 0

Init == EngineInit /\ StoreIdle /\ OracleIdle /\ AccountIdle /\ CalcIdle /\ OrderIdle

Next == StartCycle \/ ProcessPosition \/ FinishCycle

Spec == Init /\ [][Next]_vars

---------------------------------------------------------------------------
(* The save protocol step by step, with injected faults and interruption *)

Snapshots == 1..MaxSnapshot
SaveSteps == {"backup", "write_temp", "verify_temp", "replace",
              "verify_final", "cleanup", "except"}

\* call of _save_positions_data(d): MAX_RETRIES, retry_count = 0, first pass
SvStart ==
    /\ spc \in {"idle", "returned", "raised", "crashed"}
    /\ saves < MaxSaves
    /\ \E d \in Snapshots : data' = d
    /\ saves' = saves + 1
    /\ spc' = "backup"
    /\ retry_count' = 0
    /\ attempts' = 1
    /\ sleeps' = 0
    /\ prior' = fs.final
    /\ final_verified' = FALSE
    /\ UNCHANGED <<fs, faults_used, verified, outside_store>>

\* the step at position here under fault flt, with result r; on success go
\* to there, on an exception to the except block
SvStep(here, flt, r, there) ==
    /\ spc = here
    /\ flt # "none" => faults_used < MaxFaults
    /\ faults_used' = IF flt = "none" THEN faults_used ELSE faults_used + 1
    /\ fs' = r.fs
    /\ spc' = IF r.ok THEN there ELSE "except"
    /\ UNCHANGED <<data, retry_count, attempts, sleeps, prior, saves,
                   outside_store>>

SvBackup ==
    /\ \E flt \in {"none", "backup_open", "backup_write"} :
        SvStep("backup", flt, backup_step(fs, flt), "write_temp")
    /\ UNCHANGED <<final_verified, verified>>

SvWriteTemp ==
    /\ \E flt \in {"none", "temp_write", "temp_corrupt"} :
        SvStep("write_temp", flt, write_temp_step(fs, data, flt), "verify_temp")
    /\ UNCHANGED <<final_verified, verified>>

SvVerifyTemp ==
    /\ \E flt \in {"none", "temp_read"} :
        SvStep("verify_temp", flt, verify_temp_step(fs, data, flt), "replace")
    /\ UNCHANGED <<final_verified, verified>>

SvReplace ==
    /\ \E flt \in {"none", "replace"} :
        SvStep("replace", flt, replace_step(fs, flt), "verify_final")
    /\ UNCHANGED <<final_verified, verified>>

SvVerifyFinal ==
    \E flt \in {"none", "final_read"} :
        /\ SvStep("verify_final", flt, verify_final_step(fs, data, flt), "cleanup")
        /\ final_verified' = verify_final_step(fs, data, flt).ok
        /\ verified' = IF verify_final_step(fs, data, flt).ok
                       THEN verified \cup {fs.final} ELSE verified

\* clean-up and "return": a failure of the clean-up does not fail the save
SvCleanup ==
    /\ \E flt \in {"none", "cleanup_temp", "cleanup_backups"} :
        SvStep("cleanup", flt, [fs |-> cleanup_step(fs, flt), ok |-> TRUE],
               "returned")
    /\ UNCHANGED <<final_verified, verified>>

\* the except block: count, restore, then sleep and retry, or raise
SvExcept ==
    /\ spc = "except"
    /\ retry_count' = retry_count + 1
    /\ fs' = restore_step(fs, retry_count + 1)
    /\ IF retry_again(retry_count + 1)
       THEN /\ sleeps' = sleeps + 1
            /\ attempts' = attempts + 1
            /\ spc' = "backup"
       ELSE /\ spc' = "raised"
            /\ UNCHANGED <<sleeps, attempts>>
    /\ UNCHANGED <<data, prior, saves, faults_used, final_verified, verified,
                   outside_store>>

\* the process is killed inside the save; a write that was under way leaves
\* a file that is not complete
SvCrash ==
    /\ spc \in SaveSteps
    /\ faults_used < MaxFaults
    /\ faults_used' = faults_used + 1
    /\ \E midwrite \in BOOLEAN :
        fs' = IF midwrite /\ spc = "write_temp"
              THEN [fs EXCEPT !.temps = Append(@, Partial)]
              ELSE IF midwrite /\ spc = "backup" /\ fs.final # Absent
              THEN [fs EXCEPT !.backups = Append(@, Partial)]
              ELSE fs
    /\ spc' = "crashed"
    /\ UNCHANGED <<data, retry_count, attempts, sleeps, prior, saves,
                   final_verified, verified, outside_store>>

\* the snapshot written by runs before the ones observed
OldSnapshot == 0

\* the store a save can find: nothing yet, or the files left by earlier
\* saves of one and the same snapshot (the last one and KeptBackups backups)
StoresFound ==
    {[final |-> Absent, backups |-> <<>>, temps |-> <<>>, bak |-> Absent],
     [final |-> Doc(OldSnapshot),
      backups |-> [i \in 1..KeptBackups |-> Doc(OldSnapshot)],
      temps |-> <<>>, bak |-> Absent]}

SaveInit ==
    /\ EngineInit /\ OracleIdle /\ AccountIdle /\ CalcIdle /\ OrderIdle
    /\ fs \in StoresFound
    /\ data = EmptySnapshot
    /\ spc = "idle"
    /\ retry_count = 0
    /\ attempts = 0
    /\ sleeps = 0
    /\ prior = Absent
    /\ saves = 0
    /\ faults_used = 0
    /\ final_verified = FALSE
    /\ verified = {fs.final} \ {Absent}

SaveNext ==
    \/ SvStart \/ SvBackup \/ SvWriteTemp \/ SvVerifyTemp \/ SvReplace
    \/ SvVerifyFinal \/ SvCleanup \/ SvExcept \/ SvCrash

SaveSpec == SaveInit /\ [][SaveNext]_vars

---------------------------------------------------------------------------
(* Price oracle (_get_current_price): the calling thread and its listeners *)

\* close prices the candles request and the candlestick channel can carry;
\* a message without "close" is read as 0
RestCloses == {5}
WsCloses == {0, 7}

\* what requests.get can give: an exception, or a status and a body
RestResponses ==
    {[raised |-> TRUE, status |-> 0, success |-> FALSE, result |-> <<>>],
     [raised |-> FALSE, status |-> 500, success |-> FALSE, result |-> <<>>],
     [raised |-> FALSE, status |-> 200, success |-> FALSE, result |-> <<>>],
     [raised |-> FALSE, status |-> 200, success |-> TRUE, result |-> <<>>],
     [raised |-> FALSE, status |-> 200, success |-> TRUE,
      result |-> << [close |-> 0, numeric |-> FALSE] >>]}
    \cup {[raised |-> FALSE, status |-> 200, success |-> TRUE,
           result |-> << [close |-> c, numeric |-> TRUE] >>] : c \in RestCloses}

\* variant: the answer of the primary channel is never used
rest_price_distrusted(r) == [ok |-> FALSE, price |-> 0]

\* the REST part: float(data['result'][0]['close']) of a 200/success answer
rest_price(r) ==
    IF /\ ~r.raised /\ r.status = 200 /\ r.success
       /\ r.result # <<>> /\ Head(r.result).numeric
    THEN [ok |-> TRUE, price |-> Head(r.result).close]
    ELSE [ok |-> FALSE, price |-> 0]

\* messages the socket can deliver
WsMessages ==
    [type : {"candlestick_1m", "subscriptions"}, symbol : Symbols,
     close : WsCloses]

\* the test of on_message, with the symbol of the enclosing call
on_message_matches(message, symbol) ==
    message.type = "candlestick_1m" /\ message.symbol = symbol

\* variant: a wait without timeout
wait_more_forever(elapsed, price) == price = 0

\* "while time.time() - start_time < timeout and self.current_price == 0"
wait_more(elapsed, price) == elapsed < WaitPolls /\ price = 0

\* the thread started by a lookup, and its WebSocketApp
new_listener(call, symbol) ==
    [call |-> call, symbol |-> symbol, state |-> "connecting",
     closed |-> FALSE, msg |-> 0, heard |-> FALSE]

\* call of _get_current_price(symbol)
PStart ==
    /\ lk = "idle"
    /\ lookups < MaxLookups
    /\ \E symbol \in Symbols : lk_symbol' = symbol
    /\ lookups' = lookups + 1
    /\ lk' = "rest"
    /\ primary' = NoResponse
    /\ polls' = 0
    /\ price_result' = 0
    /\ result_from' = 0
    /\ UNCHANGED <<self_current_price, written_by, listeners, outside_oracle>>

\* the candles request: return its close, or go on to the fallback
PRest ==
    /\ lk = "rest"
    /\ \E r \in RestResponses :
        /\ primary' = r
        /\ IF rest_price(r).ok
           THEN lk' = "idle" /\ price_result' = rest_price(r).price
           ELSE lk' = "fallback" /\ UNCHANGED price_result
    /\ UNCHANGED <<lk_symbol, lookups, self_current_price, written_by, polls,
                   listeners, result_from, outside_oracle>>

\* self.current_price = 0, WebSocketApp(...), ws_thread.start()
PFallback ==
    /\ lk = "fallback"
    /\ self_current_price' = 0
    /\ written_by' = 0
    /\ listeners' = Append(listeners, new_listener(lookups, lk_symbol))
    /\ polls' = 0
    /\ lk' = "wait"
    /\ UNCHANGED <<lk_symbol, lookups, primary, price_result, result_from,
                   outside_oracle>>

\* one test of the while condition, and time.sleep(0.1) when it holds
PPoll ==
    /\ lk = "wait"
    /\ IF wait_more(polls, self_current_price)
       THEN /\ polls' = IF polls < WaitPolls THEN polls + 1 ELSE polls
            /\ UNCHANGED lk
       ELSE /\ lk' = "close"
            /\ UNCHANGED polls
    /\ UNCHANGED <<lk_symbol, lookups, self_current_price, written_by,
                   listeners, primary, price_result, result_from, outside_oracle>>

\* ws.close() of the calling thread; the thread is not joined
PClose ==
    /\ lk = "close"
    /\ listeners' = [listeners EXCEPT ![Len(listeners)].closed = TRUE]
    /\ lk' = "check"
    /\ UNCHANGED <<lk_symbol, lookups, self_current_price, written_by, polls,
                   primary, price_result, result_from, outside_oracle>>

\* "if self.current_price > 0: return self.current_price", else return 0
PReturn ==
    /\ lk = "check"
    /\ price_result' = IF self_current_price > 0 THEN self_current_price ELSE 0
    /\ result_from' = IF self_current_price > 0 THEN written_by ELSE 0
    /\ lk' = "idle"
    /\ UNCHANGED <<lk_symbol, lookups, self_current_price, written_by, polls,
                   listeners, primary, outside_oracle>>

\* the steps of the thread that runs _get_current_price
LookupStep == PRest \/ PFallback \/ PPoll \/ PClose \/ PReturn

\* a listener changes, nothing else does
ListenerStep(j, l) ==
    /\ listeners' = [listeners EXCEPT ![j] = l]
    /\ UNCHANGED <<lk, lk_symbol, lookups, polls, primary, price_result,
                   result_from, outside_oracle>>

\* run_forever connects and on_open subscribes
LOpen ==
    \E j \in DOMAIN listeners :
        /\ listeners[j].state = "connecting" /\ ~listeners[j].closed
        /\ ListenerStep(j, [listeners[j] EXCEPT !.state = "open"])
        /\ UNCHANGED <<self_current_price, written_by>>

\* the connection cannot be made: on_error, run_forever returns
LConnectFail ==
    \E j \in DOMAIN listeners :
        /\ listeners[j].state = "connecting"
        /\ ListenerStep(j, [listeners[j] EXCEPT !.state = "stopped"])
        /\ UNCHANGED <<self_current_price, written_by>>

\* a message is read and on_message is entered; a message that does not
\* match is dropped
LReceive ==
    \E j \in DOMAIN listeners, message \in WsMessages :
        /\ listeners[j].state = "open" /\ ~listeners[j].closed
        /\ on_message_matches(message, listeners[j].symbol)
        /\ ListenerStep(j, [listeners[j] EXCEPT !.state = "handling",
                                                !.msg = message.close,
                                                !.heard = TRUE])
        /\ UNCHANGED <<self_current_price, written_by>>

\* on_message: self.current_price = float(close); ws.close()
LWrite ==
    \E j \in DOMAIN listeners :
        /\ listeners[j].state = "handling"
        /\ self_current_price' = listeners[j].msg
        /\ written_by' = listeners[j].call
        /\ ListenerStep(j, [listeners[j] EXCEPT !.state = "closing",
                                                !.closed = TRUE, !.msg = 0])

\* run_forever notices that the socket was closed and the thread ends
LStop ==
    \E j \in DOMAIN listeners :
        /\ listeners[j].state \in {"connecting", "open", "closing"}
        /\ listeners[j].closed
        /\ ListenerStep(j, [listeners[j] EXCEPT !.state = "stopped"])
        /\ UNCHANGED <<self_current_price, written_by>>

PriceInit == EngineInit /\ StoreIdle /\ OracleIdle /\ AccountIdle /\ CalcIdle /\ OrderIdle

PriceNext ==
    \/ PStart \/ PRest \/ PFallback \/ PPoll \/ PClose \/ PReturn
    \/ LOpen \/ LConnectFail \/ LReceive \/ LWrite \/ LStop

PriceSpec == PriceInit /\ [][PriceNext]_vars

\* the calling thread keeps running: the request has a timeout of 10 s, the
\* wait loop sleeps 0.1 s a pass; the listeners are daemon threads of which
\* nothing is assumed
PriceLiveSpec == PriceInit /\ [][PriceNext]_vars /\ WF_vars(LookupStep)

---------------------------------------------------------------------------
(* Properties of the engine cycle, checked under Spec *)

\* the place_order calls of the running cycle made for symbol s
OrdersFor(s) == {i \in 1..Len(orders) : orders[i].product_id = ProductId[s]}
SymbolOf(product_id) == CHOOSE s \in Symbols : ProductId[s] = product_id

\* the run went through the loop and the save, and has returned
CycleDone ==
    pc = "idle" /\ result = "returned" /\ now > 0 /\ aborted_by = "none"
\* the save of the finished run succeeded: the file is the saved snapshot
Saved == CycleDone /\ ~save_failed

\* the price lookup of s was made in this cycle and gave a price / failed
PriceOk(s) == s \in DOMAIN seen /\ seen[s].looked_up /\ seen[s].price # 0
PriceFailed(s) == s \in DOMAIN seen /\ seen[s].looked_up /\ seen[s].price = 0

\* C1: an entry that survives a cycle keeps or tightens its stop in the
\* direction of its stored size: the stop of a stored long never decreases,
\* the stop of a stored short never increases.
C1_Ratchet ==
    \A s \in DOMAIN loaded \cap DOMAIN stored_positions :
        /\ loaded[s].size > 0 =>
                stored_positions[s].stop_loss >= loaded[s].stop_loss
        /\ loaded[s].size < 0 =>
                stored_positions[s].stop_loss <= loaded[s].stop_loss

\* The ratchet as the code keeps it: in the direction of the live size.
RatchetInLiveDirection ==
    \A s \in DOMAIN loaded \cap DOMAIN stored_positions \cap DOMAIN seen :
        /\ current_positions[s].size > 0 =>
                stored_positions[s].stop_loss >= loaded[s].stop_loss
        /\ current_positions[s].size < 0 =>
                stored_positions[s].stop_loss <= loaded[s].stop_loss

\* C2: for a tracked symbol with a price, a breach of the stored stop (long:
\* price <= stop, short: price >= stop) gives exactly one market order of
\* size abs(size) on the closing side, and no breach gives no order.
C2_BreachOrder ==
    \A s \in DOMAIN loaded :
        PriceOk(s) =>
            LET size == current_positions[s].size
                p == seen[s].price
                stop == loaded[s].stop_loss
                mine == OrdersFor(s)
                breach == \/ size > 0 /\ p <= stop
                          \/ size < 0 /\ p >= stop
                closes(side) ==
                    /\ Cardinality(mine) = 1
                    /\ \A i \in mine :
                        /\ orders[i].size = Abs(size)
                        /\ orders[i].order_type = "market_order"
                        /\ orders[i].side = side
            IN  /\ size > 0 /\ p <= stop => closes("sell")
                /\ size < 0 /\ p >= stop => closes("buy")
                /\ ~breach => mine = {}

\* a cycle with a long closed by a sell and a short closed by a buy
C2_Witness ==
    /\ \E i \in 1..Len(orders) :
        orders[i].side = "sell" /\ SymbolOf(orders[i].product_id) \in DOMAIN loaded
    /\ \E i \in 1..Len(orders) :
        orders[i].side = "buy" /\ SymbolOf(orders[i].product_id) \in DOMAIN loaded

\* the fields of a stored entry that a failed close must leave alone
SameStop(e1, e2) ==
    /\ e1.entry_price = e2.entry_price
    /\ e1.size = e2.size
    /\ e1.stop_loss = e2.stop_loss
    /\ e1.stop_loss_updates = e2.stop_loss_updates

\* C3: a close order that succeeded deletes the entry from the snapshot that
\* is saved; one that did not succeed leaves entry_price, size, stop_loss and
\* stop_loss_updates of the entry as they were loaded.
C3_CloseOutcome ==
    \A i \in 1..Len(orders) :
        LET s == SymbolOf(orders[i].product_id) IN
        IF orders[i].success
        THEN /\ s \notin DOMAIN stored_positions
             /\ Saved => positions_file.kind = "json"
                         /\ s \notin DOMAIN positions_file.doc
        ELSE /\ s \in DOMAIN stored_positions
             /\ SameStop(stored_positions[s], loaded[s])
             /\ Saved => positions_file.kind = "json"
                         /\ s \in DOMAIN positions_file.doc
                         /\ SameStop(positions_file.doc[s], loaded[s])

\* a saved cycle with one close that succeeded and one that failed
C3_Witness ==
    /\ Saved
    /\ \E i \in 1..Len(orders) : orders[i].success
    /\ \E i \in 1..Len(orders) : ~orders[i].success

InitialStop(entry_price, size) ==
    IF size > 0
    THEN RoundHalfEven(entry_price * (100 - StopLossPercentage), 100 * Grid) * Grid
    ELSE RoundHalfEven(entry_price * (100 + StopLossPercentage), 100 * Grid) * Grid

\* C5: a live position without stored entry, with product id and price, is
\* inserted with stop_loss_updates = 0 and stop_loss = initial stop.
C5_Insert ==
    \A s \in DOMAIN seen \ DOMAIN loaded :
        PriceOk(s) =>
            /\ s \in DOMAIN stored_positions
            /\ stored_positions[s].stop_loss_updates = 0
            /\ stored_positions[s].stop_loss =
                    InitialStop(current_positions[s].entry_price,
                                current_positions[s].size)
            /\ Saved => positions_file.kind = "json"
                        /\ s \in DOMAIN positions_file.doc
                        /\ positions_file.doc[s] = stored_positions[s]

\* a saved cycle that inserted a long and a short, the short's stop rounded
C5_Witness ==
    /\ Saved
    /\ \E s \in DOMAIN seen \ DOMAIN loaded :
        PriceOk(s) /\ current_positions[s].size > 0
    /\ \E s \in DOMAIN seen \ DOMAIN loaded :
        /\ PriceOk(s) /\ current_positions[s].size < 0
        /\ 100 * stored_positions[s].stop_loss #
                current_positions[s].entry_price * (100 + StopLossPercentage)

\* C6: a symbol whose price lookup failed is skipped: its entry is unchanged
\* in every field (or still absent), and no order is placed for it.
C6_SkipNoPrice ==
    \A s \in DOMAIN seen :
        PriceFailed(s) =>
            /\ OrdersFor(s) = {}
            /\ IF s \in DOMAIN loaded
               THEN /\ s \in DOMAIN stored_positions
                    /\ stored_positions[s] = loaded[s]
                    /\ Saved => positions_file.kind = "json"
                                /\ s \in DOMAIN positions_file.doc
                                /\ positions_file.doc[s] = loaded[s]
               ELSE /\ s \notin DOMAIN stored_positions
                    /\ Saved => positions_file.kind = "json"
                                /\ s \notin DOMAIN positions_file.doc

\* a saved cycle with a failed lookup for a tracked and for a new symbol
C6_Witness ==
    /\ Saved
    /\ \E s \in DOMAIN loaded : PriceFailed(s)
    /\ \E s \in DOMAIN seen \ DOMAIN loaded : PriceFailed(s)

\* C10: a save that failed after all retries makes manage_stop_losses end
\* with the failure propagated to its caller.
C10_SaveFailureEscalates == save_failed => result = "raised"

\* C11: every engine cycle that has ended called _save_positions_data exactly
\* once, and no call is made while symbols are still to be evaluated (the
\* orders of the cycle are placed inside the loop).
C11_WrittenOnce ==
    /\ pc = "idle" /\ now > 0 => save_calls = 1
    /\ pc = "loop" => save_calls = 0

\* The write as the code makes it: once, after the loop, in the cycles that
\* got a product mapping and a snapshot.
WrittenOnceAfterLoop ==
    /\ CycleDone => save_calls = 1
    /\ pc = "idle" /\ aborted_by # "none" => save_calls = 0
    /\ pc = "loop" => save_calls = 0

C13_LoadNeverAborts ==
    /\ aborted_by # "load"
    /\ pc = "loop" /\ positions_file.kind # "json" => loaded = EmptySnapshot

\* The part the code keeps: an absent or undecodable file gives the empty
\* snapshot and the loop runs.
UndecodableLoadsEmpty ==
    /\ aborted_by = "load" => positions_file = NotDict
    /\ pc = "loop" /\ ~Decodable(positions_file) => loaded = EmptySnapshot

\* C19: an entry is inserted with stop_loss_updates = 0; over a cycle the
\* counter of an entry is unchanged or one higher, and it is one higher
\* exactly when the stored stop_loss differs from the one loaded.
C19_CounterTracksStop ==
    aborted_by = "none" =>
    /\ \A s \in DOMAIN stored_positions \ DOMAIN loaded :
            stored_positions[s].stop_loss_updates = 0
    /\ \A s \in DOMAIN loaded \cap DOMAIN stored_positions :
        LET moved == stored_positions[s].stop_loss # loaded[s].stop_loss
            d == stored_positions[s].stop_loss_updates
                    - loaded[s].stop_loss_updates
        IN  /\ d \in {0, 1}
            /\ d = 1 <=> moved

\* The part the code keeps: the counter starts at 0, never decreases, rises
\* by at most 1 in a cycle, and the stop never moves without it.
CounterCoversMoves ==
    aborted_by = "none" =>
    /\ \A s \in DOMAIN stored_positions \ DOMAIN loaded :
            stored_positions[s].stop_loss_updates = 0
    /\ \A s \in DOMAIN loaded \cap DOMAIN stored_positions :
        LET d == stored_positions[s].stop_loss_updates
                    - loaded[s].stop_loss_updates
        IN  /\ d \in {0, 1}
            /\ stored_positions[s].stop_loss # loaded[s].stop_loss => d = 1

\* C20: a stored entry whose live position has the opposite sign is not
\* handled in place: no order is placed for it as a position of the new
\* direction, and what the cycle stores for the symbol is a new entry with
\* the live size, the initial stop of the live position and counter 0.
C20_NoFlipInPlace ==
    \A s \in DOMAIN loaded \cap DOMAIN seen :
        PriceOk(s) /\ loaded[s].size * current_positions[s].size < 0 =>
            /\ OrdersFor(s) = {}
            /\ s \in DOMAIN stored_positions
            /\ stored_positions[s].size = current_positions[s].size
            /\ stored_positions[s].stop_loss_updates = 0
            /\ stored_positions[s].stop_loss =
                    InitialStop(current_positions[s].entry_price,
                                current_positions[s].size)

\* What the code keeps of the direction: the stored size never changes.
StoredSizeKept ==
    \A s \in DOMAIN loaded \cap DOMAIN stored_positions :
        stored_positions[s].size = loaded[s].size

---------------------------------------------------------------------------
(* Properties of the save protocol, checked under SaveSpec *)

\* C7: from the start of a save on, whatever fails or is interrupted, the
\* final path holds the complete prior content or the complete new snapshot.
C7_FinalPriorOrNew ==
    spc # "idle" => fs.final = prior \/ fs.final = Doc(data)

\* a write of the temp file was interrupted and the prior snapshot is intact
C7_Witness ==
    /\ spc = "crashed"
    /\ fs.temps # <<>> /\ Last(fs.temps) = Partial
    /\ prior.kind = "json" /\ prior # Doc(data)
    /\ fs.final = prior

\* C8: a save whose attempts all fail makes exactly 3 attempts, sleeps
\* between them only, and raises; it returns only with the final path
\* re-read and equal to the snapshot.
C8_ThreeAttempts ==
    /\ spc = "raised" => attempts = 3 /\ sleeps = 2
    /\ spc \in SaveSteps => attempts <= 3 /\ sleeps = attempts - 1
    /\ spc = "returned" => final_verified /\ fs.final = Doc(data)

\* a save that raised, after its attempts failed at different steps
C8_Witness ==
    /\ spc = "raised"
    /\ Len(fs.temps) >= 2
    /\ fs.final # Doc(data)

\* the complete backups, oldest first
GoodBackups == SelectSeq(fs.backups, LAMBDA b : b.kind = "json")

\* C9: when the save has raised and a backup exists, the final path holds
\* the content of the most recent backup.
C9_RestoredFromBackup ==
    spc = "raised" /\ GoodBackups # <<>> => fs.final = Last(GoodBackups)

---------------------------------------------------------------------------
(* Properties of the price oracle, checked under PriceSpec *)

\* the lookup has returned
Returned == lk = "idle" /\ lookups > 0
\* the candles request of the lookup gave a close price
PrimarySucceeded ==
    /\ ~primary.raised /\ primary.status = 200 /\ primary.success
    /\ primary.result # <<>> /\ Head(primary.result).numeric
\* the candles request was made and gave no price
PrimaryFailed == primary # NoResponse /\ ~PrimarySucceeded
\* the listeners started by the running (or last) lookup
Own == {j \in DOMAIN listeners : listeners[j].call = lookups}
\* the listener threads that have not ended
Alive == {j \in DOMAIN listeners : listeners[j].state # "stopped"}

\* C14: a price returned from the streaming channel was written by the
\* listener of the same lookup, opened for the same symbol.
C14_OwnListenerOnly ==
    result_from # 0 =>
        /\ result_from = lookups
        /\ \A j \in DOMAIN listeners :
            listeners[j].call = result_from => listeners[j].symbol = lk_symbol

\* C15: a lookup whose primary channel failed and whose listener got no
\* matching update returns 0; and the WebSocketApp of a lookup that started
\* one has been closed when the lookup returns.
C15_FailureAndTeardown ==
    Returned =>
        /\ PrimaryFailed /\ (\A j \in Own : ~listeners[j].heard)
                => price_result = 0
        /\ \A j \in Own : listeners[j].closed

\* The part the code keeps: close() is called on the lookup's own
\* WebSocketApp before every return of the fallback path.
ClosedBeforeReturn == Returned => \A j \in Own : listeners[j].closed

\* C16: a lookup whose candles request succeeded returns that close price
\* and starts no listener; a listener exists only for a lookup whose candles
\* request had failed.
C16_PrimaryFirst ==
    /\ Returned /\ PrimarySucceeded =>
            /\ price_result = Head(primary.result).close
            /\ Own = {}
    /\ Own # {} => PrimaryFailed
    /\ lk = "rest" => Own = {}

\* a first lookup that fell back and a second one served by the candles
\* request without a listener
C16_Witness ==
    /\ Returned /\ lookups = 2
    /\ PrimarySucceeded /\ price_result \in RestCloses
    /\ Len(listeners) = 1 /\ listeners[1].call = 1

\* C17: at most one listener thread is alive at any time.
C17_OneListener == Cardinality(Alive) <= 1

\* what a lookup can return
ReturnsPriceOrZero == price_result \in {0} \cup RestCloses \cup WsCloses

\* C18: every lookup that was started returns, whatever its listener does or
\* fails to do, and what it returns is a price or 0.
C18_Terminates ==
    /\ []ReturnsPriceOrZero
    /\ (lk # "idle") ~> (lk = "idle")

\* a lookup that returned 0 after the full wait, with a listener that never
\* got a message
C18_Witness ==
    /\ Returned /\ PrimaryFailed
    /\ polls = WaitPolls /\ price_result = 0
    /\ \A j \in Own : ~listeners[j].heard
    /\ \E j \in Own : listeners[j].state = "open"

---------------------------------------------------------------------------
(* The stop-loss calculator called on its own: the arguments are drawn in
   the initial state and one step applies both functions to them. *)

CalcPrices == {990, 996, 1000, 1004, 1024, 1050}
CalcStops == {970, 980, 1000, 1030, 1040}
CalcEntries == {1000, 1010}
CalcSizes == {-2, 1}

CalcInputs ==
    [current_price : CalcPrices, current_stop_loss : CalcStops,
     entry_price : CalcEntries, size : CalcSizes]

\* one call of _calculate_stop_loss and one of _should_update_stop_loss
CalcApply ==
    /\ ~calc_out.done
    /\ calc_out' =
        [done |-> TRUE,
         candidate |-> calculate_stop_loss(calc_in.current_price,
                            calc_in.entry_price, calc_in.size),
         update |-> should_update_stop_loss(calc_in.current_price,
                            calc_in.current_stop_loss, calc_in.entry_price,
                            calc_in.size)]
    /\ UNCHANGED <<calc_in, outside_calc>>

CalcInit ==
    /\ EngineInit /\ StoreIdle /\ OracleIdle /\ AccountIdle /\ OrderIdle
    /\ calc_in \in CalcInputs
    /\ calc_out = [done |-> FALSE, candidate |-> 0, update |-> FALSE]

CalcNext == CalcApply

CalcSpec == CalcInit /\ [][CalcNext]_vars

---------------------------------------------------------------------------
(* Properties of the calculator, checked under CalcSpec *)

\* candidate is strictly more protective than stop for a position of size
MoreProtective(candidate, stop, size) ==
    IF size > 0 THEN candidate > stop ELSE candidate < stop

\* C21: _should_update_stop_loss answers true exactly when the candidate
\* that _calculate_stop_loss returns for the same current price, entry price
\* and size is strictly more protective than the current stop; it answers
\* false when that candidate equals the current stop.
C21_UpdateIffCandidateBetter ==
    calc_out.done =>
        (calc_out.update <=>
            MoreProtective(calc_out.candidate, calc_in.current_stop_loss,
                           calc_in.size))

\* The part the code keeps: a returned candidate that is strictly more
\* protective is always accepted, and an accepted candidate is never less
\* protective than the current stop.
UpdateCoversBetterCandidate ==
    calc_out.done =>
        /\ MoreProtective(calc_out.candidate, calc_in.current_stop_loss,
                          calc_in.size) => calc_out.update
        /\ calc_out.update =>
            ~MoreProtective(calc_in.current_stop_loss, calc_out.candidate,
                            calc_in.size)

\* the answer is true while the returned candidate equals the current stop
UpdateWithEqualCandidate ==
    /\ calc_out.done /\ calc_out.update
    /\ calc_out.candidate = calc_in.current_stop_loss

---------------------------------------------------------------------------
(* The reconciliation loop on the raw position records of the exchange and
   with the percentage the manager was constructed with.  Prices are in the
   same units; the records carry entry_price as the exchange sent it. *)

\* values of the constructor argument stop_loss_percentage
Percentages == {-1, 0, StopLossPercentage}

\* position['entry_price'] as received: a number, JSON null, or no such key
Num(v) == [kind |-> "num", val |-> v]
Null == [kind |-> "null", val |-> 0]
Missing == [kind |-> "missing", val |-> 0]

\* float(pos_data.get('entry_price', 0)): the default for a missing key,
\* TypeError for null
float_entry_price(raw) ==
    IF raw.kind = "null" THEN [raised |-> TRUE, value |-> 0]
    ELSE IF raw.kind = "missing" THEN [raised |-> FALSE, value |-> 0]
    ELSE [raised |-> FALSE, value |-> raw.val]

\* the raw records a run can receive: a long BTCUSD, a short ETHUSD
RawEntries ==
    [s \in Symbols |-> IF s = "BTCUSD" THEN {Num(10000), Null, Missing}
                       ELSE {Num(5000)}]
RawSize == [s \in Symbols |-> IF s = "BTCUSD" THEN 1 ELSE -2]

RawPositions ==
    UNION {{[s \in S |-> [entry_price |-> e[s], size |-> RawSize[s]]] :
                e \in {f \in [S -> UNION {RawEntries[x] : x \in Symbols}] :
                            \A s \in S : f[s] \in RawEntries[s]}} :
           S \in SUBSET Symbols}

\* what _get_current_price can return for the symbol; 0 is its failure value
QuotedPrices ==
    [s \in Symbols |-> IF s = "BTCUSD" THEN {0, 10800, 11000}
                       ELSE {0, 4500, 4600}]

\* variant: an empty mapping is not noticed
mapping_failed_unnoticed(mapping) == FALSE

\* "if not self.product_mapping" after get_product_mapping: {} is its
\* failure value
mapping_failed(mapping) == mapping = EmptySnapshot

\* Start of a run, as StartCycle, on the raw records.
RawStartCycle ==
    /\ pc = "idle"
    /\ now < MaxCycles
    /\ \E mapping \in Mappings, live \in RawPositions :
        LET got == get_positions(load_positions_data(positions_file))
        IN  /\ now' = now + 1
            /\ product_mapping' = mapping
            /\ orders' = <<>>
            /\ seen' = EmptySnapshot
            /\ save_failed' = FALSE
            /\ save_calls' = 0
            /\ IF mapping_failed(mapping) \/ ~got.ok
               THEN /\ pc' = "idle"
                    /\ result' = IF mapping_failed(mapping) THEN "returned"
                                  ELSE manage_outcome(TRUE)
                    /\ aborted_by' = IF mapping_failed(mapping) THEN "mapping"
                                      ELSE "load"
                    /\ loaded' = EmptySnapshot
                    /\ current_positions' = EmptySnapshot
                    /\ pending' = <<>>
                    /\ UNCHANGED stored_positions
               ELSE /\ pc' = "loop"
                    /\ result' = "running"
                    /\ aborted_by' = "none"
                    /\ stored_positions' = got.positions
                    /\ loaded' = got.positions
                    /\ current_positions' = live
                    /\ pending' = InOrder(SymbolOrder, DOMAIN live)
    /\ UNCHANGED <<positions_file, stop_loss_percentage, outside_engine>>

\* One iteration of the for-loop, from its first statement: the conversion
\* of entry_price comes before the product id and the price lookup, and an
\* exception of it leaves the loop for the except clause of the method.
RawProcessPosition ==
    /\ pc = "loop"
    /\ pending # <<>>
    /\ LET symbol == Head(pending)
           raw == current_positions[symbol]
           entry == float_entry_price(raw.entry_price)
       IN  IF entry.raised
           THEN /\ pc' = "idle"
                /\ result' = manage_outcome(TRUE)
                /\ aborted_by' = "loop"
                /\ pending' = <<>>
                /\ UNCHANGED <<stored_positions, orders, seen>>
           ELSE /\ \E current_price \in QuotedPrices[symbol],
                      exchange_ok \in BOOLEAN :
                    LET r == process_position(stored_positions, symbol,
                                [entry_price |-> entry.value,
                                 size |-> raw.size],
                                product_mapping, current_price, exchange_ok,
                                now)
                    IN  /\ stored_positions' = r.stored
                        /\ orders' = orders \o r.orders
                        /\ seen' = With(seen, symbol, r.seen)
                /\ pending' = Tail(pending)
                /\ UNCHANGED <<pc, result, aborted_by>>
    /\ UNCHANGED <<positions_file, current_positions, product_mapping, now,
                   loaded, save_failed, save_calls, stop_loss_percentage,
                   outside_engine>>

RawInit ==
    /\ positions_file = Absent
    /\ stored_positions = EmptySnapshot
    /\ current_positions = EmptySnapshot
    /\ product_mapping = EmptySnapshot
    /\ pending = <<>>
    /\ pc = "idle"
    /\ now = 0
    /\ orders = <<>>
    /\ loaded = EmptySnapshot
    /\ seen = EmptySnapshot
    /\ save_failed = FALSE
    /\ result = "none"
    /\ save_calls = 0
    /\ aborted_by = "none"
    /\ stop_loss_percentage \in Percentages
    /\ StoreIdle /\ OracleIdle /\ AccountIdle /\ CalcIdle /\ OrderIdle

RawNext == RawStartCycle \/ RawProcessPosition \/ FinishCycle

RawSpec == RawInit /\ [][RawNext]_vars

---------------------------------------------------------------------------
(* Properties of the loop on raw records, checked under RawSpec.  The two
   scenarios are written with their prices scaled by 10^-4 (entry 100 is
   10000 units of 10^-6): the calculator is linear in the prices, and every
   value of the scenarios is on the 5-digit grid at both scales. *)

\* the close orders of the cycle for s: one order, of the given side, for
\* the absolute size, and the entry is deleted exactly on success
ClosedBy(s, side) ==
    /\ Cardinality(OrdersFor(s)) = 1
    /\ \A i \in OrdersFor(s) :
        /\ orders[i].side = side
        /\ orders[i].order_type = "market_order"
        /\ orders[i].size = Abs(current_positions[s].size)
        /\ orders[i].success <=> s \notin DOMAIN stored_positions

\* the long scenario with candidate as the stop computed at price 11000
LongScenario(candidate) ==
    stop_loss_percentage = StopLossPercentage =>
    \A s \in DOMAIN seen :
        (/\ current_positions[s].size > 0
         /\ current_positions[s].entry_price = Num(10000)
         /\ PriceOk(s)) =>
            /\ s \notin DOMAIN loaded =>
                /\ s \in DOMAIN stored_positions
                /\ stored_positions[s].stop_loss = 9800
                /\ stored_positions[s].stop_loss_updates = 0
            /\ (/\ s \in DOMAIN loaded
                /\ loaded[s].entry_price = 10000
                /\ loaded[s].stop_loss = 9800
                /\ loaded[s].stop_loss_updates = 0
                /\ seen[s].price = 11000) =>
                    /\ s \in DOMAIN stored_positions
                    /\ stored_positions[s].stop_loss = candidate
                    /\ stored_positions[s].stop_loss_updates = 1
                    /\ OrdersFor(s) = {}
            /\ (/\ s \in DOMAIN loaded
                /\ loaded[s].stop_loss = candidate
                /\ seen[s].price <= candidate) => ClosedBy(s, "sell")

\* C22 (as amended): long, entry 100, percentage 2: the initial stop is
\* 98.0; at price 110 the candidate is 110 - 2 = 108.0, it is accepted and
\* stop_loss_updates becomes 1; at a price of 108.0 or below a close order
\* (sell, absolute size) is placed and the entry is deleted on success.
C22_LongScenario == LongScenario(10800)

\* C22 as stated: the candidate at price 110 is 107.8.
C22_AsStated == LongScenario(10780)

\* the long was inserted, trailed to 108.0, closed at 108.0 and the snapshot
\* without it was saved
C22_Witness ==
    /\ Saved /\ now = 3
    /\ stop_loss_percentage = StopLossPercentage
    /\ "BTCUSD" \in DOMAIN loaded
    /\ loaded["BTCUSD"].stop_loss = 10800
    /\ loaded["BTCUSD"].stop_loss_updates = 1
    /\ PriceOk("BTCUSD") /\ seen["BTCUSD"].price = 10800
    /\ ClosedBy("BTCUSD", "sell")
    /\ "BTCUSD" \notin DOMAIN stored_positions

\* the short scenario with candidate as the stop computed at price 4500
ShortScenario(candidate) ==
    stop_loss_percentage = StopLossPercentage =>
    \A s \in DOMAIN seen :
        (/\ current_positions[s].size < 0
         /\ current_positions[s].entry_price = Num(5000)
         /\ PriceOk(s)) =>
            /\ s \notin DOMAIN loaded =>
                /\ s \in DOMAIN stored_positions
                /\ stored_positions[s].stop_loss = 5100
                /\ stored_positions[s].stop_loss_updates = 0
            /\ (/\ s \in DOMAIN loaded
                /\ loaded[s].entry_price = 5000
                /\ loaded[s].stop_loss = 5100
                /\ seen[s].price = 4500) =>
                    /\ s \in DOMAIN stored_positions
                    /\ stored_positions[s].stop_loss = candidate
                    /\ stored_positions[s].stop_loss_updates =
                            loaded[s].stop_loss_updates + 1
                    /\ OrdersFor(s) = {}
            /\ (/\ s \in DOMAIN loaded
                /\ loaded[s].stop_loss = candidate
                /\ seen[s].price >= candidate) => ClosedBy(s, "buy")

\* C23 (as amended): short, entry 50, percentage 2: the initial stop is
\* 51.0; at price 45 the candidate is 45 + 1 = 46.0 and it is accepted; at a
\* price of 46.0 or above a close order (buy, absolute size) is placed.
C23_ShortScenario == ShortScenario(4600)

\* C23 as stated: the candidate at price 45 is 45.9.
C23_AsStated == ShortScenario(4590)

\* the short was trailed to 46.0 and closed at 46.0
C23_Witness ==
    /\ CycleDone /\ now = 3
    /\ stop_loss_percentage = StopLossPercentage
    /\ "ETHUSD" \in DOMAIN loaded
    /\ loaded["ETHUSD"].stop_loss = 4600
    /\ loaded["ETHUSD"].stop_loss_updates = 1
    /\ PriceOk("ETHUSD") /\ seen["ETHUSD"].price = 4600
    /\ ClosedBy("ETHUSD", "buy")

\* the run is over and had a product mapping and a loadable snapshot
RanLoop == pc = "idle" /\ now > 0 /\ aborted_by \notin {"mapping", "load"}

\* C24: a failure of one symbol (no product id, no price, an error raised
\* while its position is evaluated) skips only that symbol: every other live
\* symbol of the run is evaluated and the run saves the snapshot.
C24_OnlyThatSymbolSkipped ==
    RanLoop =>
        /\ \A s \in DOMAIN current_positions :
                current_positions[s].entry_price # Null => s \in DOMAIN seen
        /\ save_calls = 1

\* The part the code keeps: a symbol without product id or without price is
\* skipped alone; the loop reaches every live symbol and the run saves.
C24_SkipsKeepSiblings ==
    /\ pc = "loop" =>
        \A s \in DOMAIN seen :
            (seen[s].product_id = 0 \/ seen[s].price = 0) =>
                /\ s \in DOMAIN stored_positions <=> s \in DOMAIN loaded
                /\ s \in DOMAIN loaded =>
                        SameStop(stored_positions[s], loaded[s])
    /\ RanLoop /\ aborted_by = "none" =>
        /\ DOMAIN seen = DOMAIN current_positions
        /\ save_calls = 1

\* an error raised for the first symbol ended the run: the second live
\* symbol was not evaluated and nothing was saved
C24_RunAborted ==
    /\ RanLoop /\ aborted_by = "loop"
    /\ current_positions["BTCUSD"].entry_price = Null
    /\ "ETHUSD" \in DOMAIN current_positions
    /\ "ETHUSD" \notin DOMAIN seen
    /\ save_calls = 0

\* C27: a percentage <= 0 is rejected before use: with such a percentage no
\* run takes place, so no external call is made (product mapping, open
\* positions, price lookup, order), no stop is computed and no stored entry
\* or snapshot file is written.
C27_NonPositiveRejected ==
    stop_loss_percentage <= 0 =>
        /\ now = 0
        /\ seen = EmptySnapshot
        /\ orders = <<>>
        /\ stored_positions = EmptySnapshot
        /\ positions_file = Absent

\* a manager with percentage 0 stored a long whose stop is the price itself,
\* closed it by an order at that price and saved the snapshot
C27_ZeroPercentTrades ==
    /\ stop_loss_percentage = 0
    /\ Saved
    /\ "BTCUSD" \in DOMAIN loaded
    /\ loaded["BTCUSD"].stop_loss = loaded["BTCUSD"].current_price
    /\ OrdersFor("BTCUSD") # {}

\* the loop body computed a stop for s in this run: the initial stop of a
\* new entry, or the candidate of a tracked entry that was not breached
CalculatorReached(s) ==
    /\ PriceOk(s)
    /\ s \in DOMAIN loaded =>
            ~stop_loss_hit(seen[s].price, loaded[s].stop_loss,
                           current_positions[s].size)

\* the entry price the loop body hands to the calculator for s
EntryUsed(s) ==
    IF s \in DOMAIN loaded THEN loaded[s].entry_price
    ELSE float_entry_price(current_positions[s].entry_price).value

\* C28: the loop hands the calculator only a current price > 0 and an entry
\* price > 0; a symbol with a zero or negative current or entry price gets
\* no stop computed or stored.
C28_OnlyPositivePrices ==
    \A s \in DOMAIN seen :
        CalculatorReached(s) => seen[s].price > 0 /\ EntryUsed(s) > 0

\* The part the code keeps: the current price handed over is never 0.
C28_CurrentPriceNotZero ==
    \A s \in DOMAIN seen : CalculatorReached(s) => seen[s].price # 0

\* a position without entry_price was stored with entry price 0 and stop 0
C28_ZeroEntryStored ==
    /\ Saved
    /\ stop_loss_percentage = StopLossPercentage
    /\ "BTCUSD" \in DOMAIN stored_positions \ DOMAIN loaded
    /\ current_positions["BTCUSD"].entry_price = Missing
    /\ stored_positions["BTCUSD"].entry_price = 0
    /\ stored_positions["BTCUSD"].stop_loss = 0

---------------------------------------------------------------------------
(* Further properties of the save protocol, checked under SaveSpec *)

\* C25: after every save that returned, .temp/ holds nothing and .backup/
\* holds at most KeptBackups files, the newest ones: the backup of the
\* snapshot this save replaced is among them.
C25_CleanAfterSave ==
    spc = "returned" =>
        /\ fs.temps = <<>>
        /\ Len(fs.backups) <= KeptBackups
        /\ prior # Absent => fs.backups # <<>> /\ Last(fs.backups) = prior

\* The part the code keeps: a clean-up in which no removal fails empties
\* .temp/ and leaves the newest KeptBackups backups.
CleanupWithoutFault ==
    [][(spc = "cleanup" /\ spc' = "returned" /\ faults_used' = faults_used) =>
            /\ fs'.temps = <<>>
            /\ fs'.backups = LastN(fs.backups, KeptBackups)
            /\ fs'.final = fs.final]_vars

\* a save returned with files of failed passes left in .temp/
C25_TempLeft == spc = "returned" /\ fs.temps # <<>>

\* a save returned with more than KeptBackups backups
C25_BackupsLeft == spc = "returned" /\ Len(fs.backups) > KeptBackups

\* a clean-up without fault had more than KeptBackups backups to prune
C25_Pruned ==
    /\ spc = "returned" /\ faults_used = 0 /\ saves = MaxSaves
    /\ Len(fs.backups) = KeptBackups
    /\ Last(fs.backups) = prior /\ prior # Doc(OldSnapshot)

\* C26: whenever a step of a save changes the final path and a snapshot was
\* there when the save started, .backup/ already holds a backup equal to
\* that snapshot.
C26_BackupBeforeModify ==
    [][fs'.final # fs.final /\ prior # Absent =>
            \E i \in 1..Len(fs.backups) : fs.backups[i] = prior]_vars

\* the final path was replaced and the backup of the prior snapshot is there
C26_Witness ==
    /\ spc = "verify_final"
    /\ prior.kind = "json" /\ fs.final # prior
    /\ fs.backups # <<>> /\ Last(fs.backups) = prior

---------------------------------------------------------------------------
(* place_order called on its own, with arguments of any type.  A Python
   value is a record of its type and its number; nan marks float('nan'). *)

Int_(v) == [type |-> "int", val |-> v, nan |-> FALSE]
Float_(v) == [type |-> "float", val |-> v, nan |-> FALSE]
NaN == [type |-> "float", val |-> 0, nan |-> TRUE]
Str_ == [type |-> "str", val |-> 0, nan |-> FALSE]

\* "x <= 0" on numbers: every comparison with nan is False
LessEqZero(x) == ~x.nan /\ x.val <= 0

\* the exception _validate_order_params raises, "" if it returns
validation_error(product_id, size, order_type, side) ==
    IF product_id.type # "int" \/ LessEqZero(product_id)
    THEN "OrderValidationError"
    ELSE IF size.type \notin {"int", "float"} \/ LessEqZero(size)
    THEN "OrderValidationError"
    ELSE IF order_type \notin {"market_order", "limit_order"}
    THEN "OrderValidationError"
    ELSE IF side \notin {"buy", "sell"}
    THEN "OrderValidationError"
    ELSE ""

\* what can happen to a call whose parameters passed the validation
Transports == {"sign_error", "timeout", "connection_error", "status_500",
               "not_json", "refused", "accepted"}

\* the try block of place_order: the exception that ends it ("" if it
\* returns), the calls of session.post it made, the success of its result
order_try(product_id, size, order_type, side, transport) ==
    LET e == validation_error(product_id, size, order_type, side) IN
    IF e # "" THEN [error |-> e, requests |-> 0, success |-> FALSE]
    ELSE IF transport = "sign_error"
    THEN [error |-> "Exception", requests |-> 0, success |-> FALSE]
    ELSE IF transport = "timeout"
    THEN [error |-> "Timeout", requests |-> 1, success |-> FALSE]
    ELSE IF transport = "connection_error"
    THEN [error |-> "RequestException", requests |-> 1, success |-> FALSE]
    ELSE IF transport = "not_json"
    THEN [error |-> "Exception", requests |-> 1, success |-> FALSE]
    ELSE [error |-> "", requests |-> 1, success |-> transport = "accepted"]

\* variant: the except clauses re-raise
order_except_reraise(error) == error

\* the except clauses of place_order: each of them logs and returns
\* {'success': False, 'error': ...}; nothing is raised to the caller
order_except(error) == ""

\* place_order, for its caller
order_call(product_id, size, order_type, side, transport) ==
    LET t == order_try(product_id, size, order_type, side, transport)
    IN  [done |-> TRUE, error |-> t.error, raised |-> order_except(t.error),
         success |-> t.success, requests |-> t.requests]

OrderProductIds == {Int_(27), Int_(0), Int_(-1), Float_(27), Str_}
OrderSizes == {Int_(1), Int_(0), Float_(2), Float_(-1), NaN, Str_}
OrderTypes == {"market_order", "limit_order", "stop_order"}
OrderSides == {"buy", "sell", "hold"}

OrderArgs ==
    [product_id : OrderProductIds, size : OrderSizes,
     order_type : OrderTypes, side : OrderSides]

\* one call of place_order
PlaceOrder ==
    /\ ~order_outcome.done
    /\ \E transport \in Transports :
        LET r == order_call(order_args.product_id, order_args.size,
                            order_args.order_type, order_args.side, transport)
        IN  /\ order_outcome' = [done |-> TRUE, error |-> r.error,
                                 raised |-> r.raised, success |-> r.success]
            /\ order_requests' = order_requests + r.requests
    /\ UNCHANGED <<order_args, outside_order>>

OrderInit ==
    /\ EngineInit /\ StoreIdle /\ OracleIdle /\ AccountIdle /\ CalcIdle
    /\ order_args \in OrderArgs
    /\ order_requests = 0
    /\ order_outcome = [done |-> FALSE, error |-> "", raised |-> "",
                        success |-> FALSE]

OrderNext == PlaceOrder

OrderSpec == OrderInit /\ [][OrderNext]_vars

---------------------------------------------------------------------------
(* Properties of place_order, checked under OrderSpec *)

PositiveInteger(x) == x.type = "int" /\ ~x.nan /\ x.val > 0
PositiveNumber(x) == x.type \in {"int", "float"} /\ ~x.nan /\ x.val > 0

\* the parameters are valid in the sense of the interface
ValidOrder(a) ==
    /\ PositiveInteger(a.product_id)
    /\ PositiveNumber(a.size)
    /\ a.order_type \in {"market_order", "limit_order"}
    /\ a.side \in {"buy", "sell"}

\* C29: place_order with an invalid parameter (product_id not a positive
\* integer, size not a positive number, order_type or side not one of the
\* allowed strings) sends no request and returns a result with success false.
C29_InvalidNotSent ==
    order_outcome.done /\ ~ValidOrder(order_args) =>
        /\ order_requests = 0
        /\ order_outcome.raised = ""
        /\ ~order_outcome.success

\* The part the code keeps: every invalid parameter other than a size that
\* is nan is rejected without a request.
C29_InvalidExceptNaN ==
    order_outcome.done /\ ~ValidOrder(order_args) /\ ~order_args.size.nan =>
        /\ order_outcome.error = "OrderValidationError"
        /\ order_requests = 0
        /\ order_outcome.raised = ""
        /\ ~order_outcome.success

\* an order whose size is nan was sent and accepted
C29_NaNSent ==
    /\ order_outcome.done /\ order_args.size.nan
    /\ order_requests = 1 /\ order_outcome.success

\* C30: place_order raises OrderValidationError to its caller if the
\* parameters are invalid, and a request exception if the request fails.
C30_Raises ==
    order_outcome.done =>
        /\ order_outcome.error = "OrderValidationError" =>
                order_outcome.raised = "OrderValidationError"
        /\ order_outcome.error \in {"Timeout", "RequestException"} =>
                order_outcome.raised = order_outcome.error

\* What the code does instead: nothing is raised, and a call that ended in
\* an exception returns a result whose success is false.
C30_ReturnsFailure ==
    order_outcome.done =>
        /\ order_outcome.raised = ""
        /\ order_outcome.error # "" => ~order_outcome.success

\* a validation error and a time-out, each returned as a result
C30_ValidationReturned ==
    /\ order_outcome.done /\ order_outcome.error = "OrderValidationError"
    /\ order_outcome.raised = "" /\ ~order_outcome.success
C30_TimeoutReturned ==
    /\ order_outcome.done /\ order_outcome.error = "Timeout"
    /\ order_outcome.raised = "" /\ order_requests = 1

---------------------------------------------------------------------------
(* Further properties of the reconciliation loop, checked under Spec *)

\* C31: last_update is the time of the most recent mutation of an entry:
\* an entry that a run leaves with any field changed (current_price
\* included) has last_update equal to the time of that run.
C31_LastUpdateOnMutation ==
    aborted_by = "none" =>
        \A s \in DOMAIN loaded \cap DOMAIN stored_positions :
            stored_positions[s] # loaded[s] =>
                stored_positions[s].last_update = now

\* The part the code keeps: last_update is the time of the run that
\* inserted the entry or last moved its stop or its counter, and changes
\* with nothing else.
C31_LastUpdateOnStopMove ==
    aborted_by = "none" =>
        /\ \A s \in DOMAIN stored_positions \ DOMAIN loaded :
                stored_positions[s].last_update = now
        /\ \A s \in DOMAIN loaded \cap DOMAIN stored_positions :
            IF stored_positions[s].stop_loss_updates
                    # loaded[s].stop_loss_updates
            THEN stored_positions[s].last_update = now
            ELSE stored_positions[s].last_update = loaded[s].last_update

\* a refresh changed current_price and left last_update at an earlier run
C31_StaleLastUpdate ==
    /\ Saved
    /\ \E s \in DOMAIN loaded \cap DOMAIN stored_positions :
        /\ stored_positions[s].current_price # loaded[s].current_price
        /\ stored_positions[s].stop_loss = loaded[s].stop_loss
        /\ stored_positions[s].last_update < now
        /\ OrdersFor(s) = {}

---------------------------------------------------------------------------
(* Further properties of the calculator, checked under CalcSpec *)

\* 100 times the exact value current_price -/+ entry_price * pct / 100
ExactCandidate100 ==
    IF calc_in.size > 0
    THEN 100 * calc_in.current_price
            - calc_in.entry_price * stop_loss_percentage
    ELSE 100 * calc_in.current_price
            + calc_in.entry_price * stop_loss_percentage

\* C32 (as amended): the candidate is current_price - entry_price*pct/100
\* for a long and current_price + entry_price*pct/100 for a short, rounded
\* to 5 fractional digits: it is a multiple of 10^-5 at most half a step
\* away from the exact value, whatever the previous stop is.
C32_FixedOffsetRounded ==
    calc_out.done =>
        /\ calc_out.candidate % Grid = 0
        /\ 2 * Abs(100 * calc_out.candidate - ExactCandidate100)
                <= 100 * Grid

\* C32 as stated: the candidate equals the exact value.
C32_AsStated ==
    calc_out.done => 100 * calc_out.candidate = ExactCandidate100

\* a candidate that had to be rounded, for a price far from the entry price
\* and a previous stop far from the candidate
C32_Witness ==
    /\ calc_out.done
    /\ calc_in.current_price = 1050 /\ calc_in.entry_price = 1010
    /\ calc_in.size < 0 /\ calc_in.current_stop_loss = 970
    /\ calc_out.candidate = 1070

---------------------------------------------------------------------------
(* Trade execution (DeltaTradingSystem.execute_trades of main.py) and the
   position fetch it shares with the stop manager *)

\* accounts: the positions open on the exchange, each with a size # 0
OpenAccounts ==
    UNION {{[s \in S |-> [entry_price |-> EntryPrice[s], size |-> z[s]]] :
                z \in [S -> {-2, 1}]} : S \in SUBSET Symbols}

\* get_open_positions: one request per product; a product whose request
\* raises or is answered without success is passed over, and a failure of
\* the products request or of the whole method gives the empty list
get_open_positions(open, failed) ==
    [s \in DOMAIN open \ failed |-> open[s]]

Direction(size) == IF size > 0 THEN "LONG" ELSE "SHORT"

\* get_existing_positions: the keys "<symbol>_<direction>" of the list
get_existing_positions(positions) ==
    {<<s, Direction(positions[s].size)>> : s \in DOMAIN positions}

\* the signals of a run: at most one per symbol, LONG or SHORT
Opportunities ==
    UNION {[S -> {"LONG", "SHORT"}] : S \in SUBSET Symbols}

\* order size chosen by execute_trades for the symbols that are not
\* AAVEUSD or SOLUSD
TradeSize == 6

\* the loop over the filtered opportunities, in the order of the list q
RECURSIVE trade_orders_for(_, _, _, _, _)
trade_orders_for(q, opps, mapping, existing, exchange_ok) ==
    IF q = <<>> THEN <<>>
    ELSE LET symbol == Head(q)
             rest == trade_orders_for(Tail(q), opps, mapping, existing,
                                      exchange_ok)
         IN  IF symbol \notin DOMAIN opps
                \/ <<symbol, opps[symbol]>> \in existing
                \/ symbol \notin DOMAIN mapping
             THEN rest
             ELSE LET side == IF opps[symbol] = "LONG" THEN "buy" ELSE "sell"
                  IN  << [product_id |-> mapping[symbol], size |-> TradeSize,
                          order_type |-> "market_order", side |-> side,
                          success |-> place_order(mapping[symbol], TradeSize,
                                        "market_order", side, exchange_ok)] >>
                      \o rest

\* execute_trades: nothing is fetched or placed without a product mapping
execute_trades(opps, mapping, positions, exchange_ok) ==
    IF mapping = EmptySnapshot
    THEN [orders |-> <<>>, existing |-> {}]
    ELSE [orders |-> trade_orders_for(SymbolOrder, opps, mapping,
                        get_existing_positions(positions), exchange_ok),
          existing |-> get_existing_positions(positions)]

\* one call of execute_trades
ExecuteTrades ==
    /\ ~trade_run.done
    /\ \E mapping \in Mappings, failed \in SUBSET Symbols,
          exchange_ok \in BOOLEAN :
        LET r == execute_trades(trade_opportunities, mapping,
                    get_open_positions(exchange_open, failed), exchange_ok)
        IN  /\ trade_orders' = r.orders
            /\ trade_run' = [done |-> TRUE, existing |-> r.existing]
    /\ UNCHANGED <<trade_opportunities, exchange_open, outside_trade>>

TradeInit ==
    /\ EngineInit /\ StoreIdle /\ OracleIdle /\ CalcIdle /\ OrderIdle
    /\ exchange_open \in OpenAccounts
    /\ trade_opportunities \in Opportunities
    /\ trade_orders = <<>>
    /\ trade_run = [done |-> FALSE, existing |-> {}]

TradeNext == ExecuteTrades

TradeSpec == TradeInit /\ [][TradeNext]_vars

---------------------------------------------------------------------------
(* Properties of execute_trades, checked under TradeSpec *)

\* the pair (symbol, direction) an order of execute_trades opens
OrderPair(o) ==
    <<SymbolOf(o.product_id), IF o.side = "buy" THEN "LONG" ELSE "SHORT">>

\* the pairs that are open on the exchange
OpenPairs == get_existing_positions(exchange_open)

\* C33: execute_trades places no order for a (symbol, direction) pair for
\* which a position of that direction is open on the exchange.
C33_NoDuplicatePosition ==
    \A i \in 1..Len(trade_orders) : OrderPair(trade_orders[i]) \notin OpenPairs

\* The part the code keeps: no order for a pair that the fetch reported,
\* and every order is for an opportunity of the list, with its direction.
C33_NoOrderForReported ==
    \A i \in 1..Len(trade_orders) :
        LET pair == OrderPair(trade_orders[i])
        IN  /\ pair \notin trade_run.existing
            /\ pair[1] \in DOMAIN trade_opportunities
            /\ trade_opportunities[pair[1]] = pair[2]

\* a long BTCUSD is open, the fetch did not report it, and a buy order for
\* BTCUSD was placed and accepted
C33_Duplicate ==
    /\ trade_run.done
    /\ "BTCUSD" \in DOMAIN exchange_open /\ exchange_open["BTCUSD"].size > 0
    /\ trade_run.existing = {}
    /\ \E i \in 1..Len(trade_orders) :
        /\ OrderPair(trade_orders[i]) = <<"BTCUSD", "LONG">>
        /\ trade_orders[i].success

---------------------------------------------------------------------------
(* The reconciliation loop with the account behind the position fetch: a
   run is told the positions that get_open_positions could fetch. *)

\* Start of a run, as StartCycle, with the fetch made from the account.
FetchStartCycle ==
    /\ pc = "idle"
    /\ now < MaxCycles
    /\ \E mapping \in Mappings, open \in LivePositions,
          failed \in SUBSET Symbols :
        LET got == get_positions(load_positions_data(positions_file))
            live == get_open_positions(open, failed)
        IN  /\ now' = now + 1
            /\ exchange_open' = open
            /\ product_mapping' = mapping
            /\ orders' = <<>>
            /\ seen' = EmptySnapshot
            /\ save_failed' = FALSE
            /\ save_calls' = 0
            /\ IF mapping = EmptySnapshot \/ ~got.ok
               THEN /\ pc' = "idle"
                    /\ result' = IF mapping = EmptySnapshot THEN "returned"
                                  ELSE manage_outcome(TRUE)
                    /\ aborted_by' = IF mapping = EmptySnapshot THEN "mapping"
                                      ELSE "load"
                    /\ loaded' = EmptySnapshot
                    /\ current_positions' = EmptySnapshot
                    /\ pending' = <<>>
                    /\ UNCHANGED stored_positions
               ELSE /\ pc' = "loop"
                    /\ result' = "running"
                    /\ aborted_by' = "none"
                    /\ stored_positions' = got.positions
                    /\ loaded' = got.positions
                    /\ current_positions' = live
                    /\ pending' = InOrder(SymbolOrder, DOMAIN live)
    /\ UNCHANGED <<positions_file, stop_loss_percentage, store_vars,
                   oracle_vars, calc_vars, order_vars, trade_vars>>

FetchInit ==
    EngineInit /\ StoreIdle /\ OracleIdle /\ AccountIdle /\ CalcIdle /\ OrderIdle

FetchNext == FetchStartCycle \/ ProcessPosition \/ FinishCycle

FetchSpec == FetchInit /\ [][FetchNext]_vars

---------------------------------------------------------------------------
(* Properties of the loop and the fetch, checked under FetchSpec *)

\* C34: a stored entry is removed without a close order only when its
\* position is no longer open on the exchange: the entry of a position that
\* is open but missing from the fetched list is kept, with its stop and its
\* counter.
C34_OpenEntriesKept ==
    CycleDone =>
        \A s \in DOMAIN loaded \cap DOMAIN exchange_open :
            OrdersFor(s) = {} =>
                /\ s \in DOMAIN stored_positions
                /\ s \notin DOMAIN current_positions =>
                        SameStop(stored_positions[s], loaded[s])

\* The part the code keeps: an entry is removed without a close order only
\* when its symbol is missing from the fetched list.
C34_RemovedOnlyIfNotFetched ==
    CycleDone =>
        \A s \in DOMAIN loaded \ DOMAIN stored_positions :
            OrdersFor(s) = {} => s \notin DOMAIN current_positions

\* the fetch returned nothing while a tracked position was open; its entry,
\* whose stop had been moved, was removed and the snapshot without it saved
C34_OpenEntryLost ==
    /\ Saved
    /\ current_positions = EmptySnapshot
    /\ "BTCUSD" \in DOMAIN exchange_open
    /\ "BTCUSD" \in DOMAIN loaded
    /\ loaded["BTCUSD"].stop_loss_updates > 0
    /\ positions_file = Doc(EmptySnapshot)

---------------------------------------------------------------------------
(* Recovery from a corrupt snapshot file, checked under Spec *)

\* C35: a run that finds the positions file not to be valid JSON starts
\* from the empty snapshot, and its save succeeds and replaces the file by
\* the snapshot of the run.
C35_CorruptFileReplaced ==
    /\ pc = "loop" /\ positions_file = Corrupt => loaded = EmptySnapshot
    /\ CycleDone => positions_file # Corrupt

\* The part the code keeps, and what it does instead: the run starts from
\* the empty snapshot, its save fails, and the file stays as it was found.
C35_CorruptFileStays ==
    /\ [](pc = "loop" /\ positions_file = Corrupt => loaded = EmptySnapshot)
    /\ [](CycleDone /\ positions_file = Corrupt => save_failed)
    /\ [][pc = "loop" /\ positions_file = Corrupt =>
                positions_file' = Corrupt]_vars

\* a position was inserted by a run that found the file corrupt, and the
\* save of that run failed: the file is still corrupt
C35_StopsNotRecorded ==
    /\ CycleDone /\ save_failed
    /\ positions_file = Corrupt
    /\ loaded = EmptySnapshot
    /\ stored_positions # EmptySnapshot

---------------------------------------------------------------------------
(* The start of a run without product mapping, checked under ResizeSpec *)

\* C36: a run that cannot obtain the product mapping ends at once: it
\* returns without loading the snapshot, looks up no price, places no order,
\* calls no save and leaves the snapshot file and the backups as they were.
C36_MappingFailureEndsRun ==
    [][now' = now + 1 /\ product_mapping' = EmptySnapshot =>
            /\ pc' = "idle" /\ result' = "returned"
            /\ loaded' = EmptySnapshot /\ current_positions' = EmptySnapshot
            /\ seen' = EmptySnapshot /\ pending' = <<>>
            /\ orders' = <<>>
            /\ save_calls' = 0
            /\ positions_file' = positions_file
            /\ fs' = fs]_vars

\* a run without product mapping ended with a snapshot of an earlier run,
\* holding an entry, still in the file
C36_Witness ==
    /\ pc = "idle" /\ aborted_by = "mapping" /\ now > 1
    /\ product_mapping = EmptySnapshot
    /\ positions_file.kind = "json"
    /\ positions_file.doc # EmptySnapshot
    /\ seen = EmptySnapshot /\ orders = <<>> /\ save_calls = 0

---------------------------------------------------------------------------
(* Further properties of the engine cycle, checked under Spec *)

\* the price seen for s in this run is at or beyond the stop, in the
\* direction of the live size
BeyondStop(s, stop) ==
    \/ current_positions[s].size > 0 /\ seen[s].price <= stop
    \/ current_positions[s].size < 0 /\ seen[s].price >= stop

\* C37: a close order for a symbol is placed only in a run that loaded a
\* stored entry of the symbol. A position first seen in a run is inserted
\* with its initial stop and gets no order, also when its price is already
\* at or beyond that stop; a run that loaded the entry tests it.
C37_OrderOnlyForLoaded ==
    /\ \A i \in 1..Len(orders) :
            SymbolOf(orders[i].product_id) \in DOMAIN loaded
    /\ \A s \in DOMAIN seen \ DOMAIN loaded :
            PriceOk(s) =>
                /\ OrdersFor(s) = {}
                /\ s \in DOMAIN stored_positions
                /\ stored_positions[s].stop_loss =
                        InitialStop(current_positions[s].entry_price,
                                    current_positions[s].size)
                /\ stored_positions[s].current_price = seen[s].price
    /\ \A s \in DOMAIN seen \cap DOMAIN loaded :
            PriceOk(s) /\ BeyondStop(s, loaded[s].stop_loss) =>
                OrdersFor(s) # {}

\* a saved run inserted a long whose price was already at or below its
\* initial stop, and placed no order at all
C37_Witness ==
    /\ Saved
    /\ \E s \in DOMAIN seen \ DOMAIN loaded :
        /\ PriceOk(s) /\ current_positions[s].size > 0
        /\ BeyondStop(s, stored_positions[s].stop_loss)
        /\ positions_file.kind = "json" /\ s \in DOMAIN positions_file.doc
    /\ orders = <<>>

\* the same for a short, in a run that closed a tracked symbol
C37_ShortInserted ==
    /\ CycleDone
    /\ \E s \in DOMAIN seen \ DOMAIN loaded :
        /\ PriceOk(s) /\ current_positions[s].size < 0
        /\ BeyondStop(s, stored_positions[s].stop_loss)
    /\ orders # <<>>

---------------------------------------------------------------------------
(* The stop of a refreshed entry against its refreshed price, checked under
   RawSpec *)

\* the loaded entry of s was refreshed in this run with a price that did not
\* breach its stop
RefreshedInside(s) ==
    /\ s \in DOMAIN loaded /\ s \in DOMAIN seen
    /\ PriceOk(s)
    /\ ~BeyondStop(s, loaded[s].stop_loss)

\* stop within one offset of the price on the protective side; the offset is
\* entry_price * pct / 100, the stop may be half a rounding step off
WithinOffset(e, size, pct) ==
    IF size > 0
    THEN /\ 100 * e.stop_loss + 50 * Grid >=
                100 * e.current_price - e.entry_price * pct
         /\ e.stop_loss < e.current_price
    ELSE /\ e.stop_loss > e.current_price
         /\ 100 * e.stop_loss - 50 * Grid <=
                100 * e.current_price + e.entry_price * pct

\* C38: after a refresh with a price that did not breach the stop, the stored
\* stop lies within one offset of the stored current price on the protective
\* side: below the price of a long, above the price of a short.
C38_StopWithinOffset ==
    \A s \in Symbols :
        RefreshedInside(s) =>
            /\ s \in DOMAIN stored_positions
            /\ WithinOffset(stored_positions[s], current_positions[s].size,
                            stop_loss_percentage)

\* What holds: the same for entries with a positive entry price under a
\* positive percentage.
C38_WithinPositiveOffset ==
    \A s \in Symbols :
        RefreshedInside(s) /\ stop_loss_percentage > 0
                /\ loaded[s].entry_price > 0 =>
            /\ s \in DOMAIN stored_positions
            /\ WithinOffset(stored_positions[s], current_positions[s].size,
                            stop_loss_percentage)

\* a long stored with entry price 0 under the default percentage: the
\* refresh has moved its stop onto the current price
C38_StopAtPrice ==
    \E s \in Symbols :
        /\ RefreshedInside(s) /\ CycleDone
        /\ stop_loss_percentage = StopLossPercentage
        /\ current_positions[s].size > 0
        /\ stored_positions[s].entry_price = 0
        /\ stored_positions[s].stop_loss = stored_positions[s].current_price

---------------------------------------------------------------------------
(* The contents of the backup files, checked under SaveSpec *)

\* C39: every backup file holds a snapshot that was, at some earlier time,
\* the verified content of the final path: no unverified and no half-written
\* content is stored as a backup.
C39_BackupsWereVerified ==
    \A i \in 1..Len(fs.backups) : fs.backups[i] \in verified

\* What holds: a backup file created by a pass is a copy of what the final
\* path holds at that moment, or is left incomplete.
C39_BackupCopiesFinal ==
    [][Len(fs'.backups) > Len(fs.backups) =>
            /\ fs'.backups = Append(fs.backups, Last(fs'.backups))
            /\ Last(fs'.backups) \in {fs.final, Partial}]_vars

\* a retry after a failed final verification has stored the snapshot that
\* was never verified as the newest backup
C39_UnverifiedBackedUp ==
    /\ spc = "write_temp" /\ retry_count > 0
    /\ fs.backups # <<>>
    /\ Last(fs.backups) = Doc(data)
    /\ Doc(data) \notin verified
    /\ ~final_verified

\* a pass whose backup copy failed has left an incomplete newest backup and
\* the save has returned
C39_HalfWrittenBackup ==
    /\ spc = "returned"
    /\ \E i \in 1..Len(fs.backups) : fs.backups[i] = Partial

---------------------------------------------------------------------------
(* The reconciliation loop while an open position is added to: from run to
   run the exchange reports another size and another (average) entry price
   for the same symbol. *)

\* the position that is added to, and the entry prices and sizes the
\* exchange reports for it over time
Resized == "BTCUSD"
ResizedEntries == {EntryPrice[Resized], EntryPrice[Resized] + 10}
ResizedSizes == {1, 3}

\* the open positions of a run: none, or the resized one
ResizedPositions ==
    {EmptySnapshot} \cup
    {[s \in {Resized} |-> [entry_price |-> e, size |-> z]] :
        e \in ResizedEntries, z \in ResizedSizes}

\* Start of a run, as StartCycle, with the records of the resized positions.
ResizeStartCycle ==
    /\ pc = "idle"
    /\ now < MaxCycles
    /\ \E mapping \in Mappings, live \in ResizedPositions :
        LET got == get_positions(load_positions_data(positions_file))
        IN  /\ now' = now + 1
            /\ product_mapping' = mapping
            /\ orders' = <<>>
            /\ seen' = EmptySnapshot
            /\ save_failed' = FALSE
            /\ save_calls' = 0
            /\ IF mapping_failed(mapping) \/ ~got.ok
               THEN /\ pc' = "idle"
                    /\ result' = IF mapping_failed(mapping) THEN "returned"
                                  ELSE manage_outcome(TRUE)
                    /\ aborted_by' = IF mapping_failed(mapping) THEN "mapping"
                                      ELSE "load"
                    /\ loaded' = EmptySnapshot
                    /\ current_positions' = EmptySnapshot
                    /\ pending' = <<>>
                    /\ UNCHANGED stored_positions
               ELSE /\ pc' = "loop"
                    /\ result' = "running"
                    /\ aborted_by' = "none"
                    /\ stored_positions' = got.positions
                    /\ loaded' = got.positions
                    /\ current_positions' = live
                    /\ pending' = InOrder(SymbolOrder, DOMAIN live)
    /\ UNCHANGED <<positions_file, stop_loss_percentage, outside_engine>>

ResizeInit ==
    EngineInit /\ StoreIdle /\ OracleIdle /\ AccountIdle /\ CalcIdle /\ OrderIdle

ResizeNext == ResizeStartCycle \/ ProcessPosition \/ FinishCycle

ResizeSpec == ResizeInit /\ [][ResizeNext]_vars

---------------------------------------------------------------------------
(* Properties of the loop on resized positions, checked under ResizeSpec *)

\* the entries of the snapshot file, none when the file holds no snapshot
FileEntries ==
    IF positions_file.kind = "json" THEN positions_file.doc ELSE EmptySnapshot
FileEntriesNext ==
    IF positions_file'.kind = "json" THEN positions_file'.doc
    ELSE EmptySnapshot

\* C40: a refresh never changes the stored entry_price or size of a tracked
\* entry: within a run the entry keeps the values it was loaded with, and
\* from run to run the entry in the file keeps them while it stays in the
\* file, also when the live position reports another entry price or size.
C40_EntryAndSizeKept ==
    /\ [](\A s \in DOMAIN loaded \cap DOMAIN stored_positions :
                aborted_by = "none" =>
                    /\ stored_positions[s].entry_price = loaded[s].entry_price
                    /\ stored_positions[s].size = loaded[s].size)
    /\ [][\A s \in DOMAIN FileEntries \cap DOMAIN FileEntriesNext :
                /\ FileEntriesNext[s].entry_price = FileEntries[s].entry_price
                /\ FileEntriesNext[s].size = FileEntries[s].size]_vars

\* a saved run has moved the stop of an entry whose live record reports
\* another entry price and another size than the stored ones
C40_Witness ==
    /\ Saved
    /\ \E s \in DOMAIN loaded \cap DOMAIN stored_positions :
        /\ s \in DOMAIN FileEntries
        /\ FileEntries[s].stop_loss_updates > loaded[s].stop_loss_updates
        /\ current_positions[s].entry_price # FileEntries[s].entry_price
        /\ current_positions[s].size # FileEntries[s].size

=============================================================================
